---- MODULE Spec2Model ----
(***************************************************************************)
(* NexLattice node runtime (src/devices): one node with its peer table,    *)
(* message router, crypto session table and statistics, driven by the      *)
(* datagrams it receives, the calls of its public API and its clock.       *)
(*                                                                         *)
(* Python dicts that are only looked up by key are functions; the peer     *)
(* table, which the code iterates, is a sequence in insertion order.  An   *)
(* optional value (dict.get returning None, an absent JSON key) is a       *)
(* sequence of length 0 or 1.  An exception leaving a method is a result   *)
(* named after the exception; the assignments made before it stay.         *)
(***************************************************************************)
EXTENDS Integers, Sequences, FiniteSets, TLC

\* ------------------------------------------------------------ constants
NodeId == "B"           \* config['node_id'] of the node under study
NodeName == "node-B"    \* config['node_name']
OwnPublicKey == "pkB"   \* CryptoManager.get_public_key()

max_hops == 5
cache_ttl == 60
peer_timeout == 60

\* ------------------------------------------------------------ bounds
MaxTime == 61           \* the clock stops advancing here
MaxCount == 2           \* cap of each statistics counter
TickSteps == {cache_ttl, cache_ttl + 1}   \* seconds the clock may advance in one step

\* ------------------------------------------------------------ input sets
PeerIds == {"A", "C"}                 \* other nodes' ids
AnnouncedIds == PeerIds \cup {NodeId} \* node_id carried by a datagram
\* the address each node's datagrams come from
IpOf == [n \in AnnouncedIds |->
            CASE n = "A" -> "10.0.0.1" [] n = NodeId -> "10.0.0.2" [] OTHER -> "10.0.0.3"]
Ips == {IpOf[n] : n \in AnnouncedIds}
Reachable == {{IpOf["A"]}, Ips}       \* addresses sendto can reach during a step
Names == {"node-X"}
PublicKeys == {"pkX"}
Sources == {"A", ""}                  \* 'source' of DATA: truthy or falsy
ForwardDests == {"C"}                 \* 'destination' of DATA for another node
Timestamps == {1}
HopCounts == {0, max_hops - 1, max_hops}
Plaintexts == {"hi"}
SendDests == {"C"}
RouteDests == {"C"}
\* update_routing_table arguments <<next_hop_id, metric, hop_distance>>;
\* "X" is never a peer
RouteArgs == {<<"A", 2, 2>>, <<"X", 2, 1>>, <<"A", 1, 1>>, <<"X", 1, 2>>}
\* the same with the defaults metric=1, hop_distance=1
DefaultRouteArgs == {<<"A", 1, 1>>, <<"X", 1, 1>>}

\* inputs of the crypto manager
CryptoPeers == {"A", "C"}
SessionData == {"s1"}
MaxTextLen == 29        \* the longest text encrypted, one more than the psk has bytes

VARIABLES
    peers,          \* NetworkManager.peers, in insertion order
    routing_table,  \* MessageRouter.routing_table
    message_cache,  \* MessageRouter.message_cache: msg_id -> time cached
    session_keys,   \* CryptoManager.session_keys: peer_id -> shared secret
    stats,          \* NexLatticeNode.stats
    now,            \* time.time(), whole seconds
    out,            \* the send_direct calls of the last step, in order
    last,           \* the last step: operation, input, outcome
    challenge_cache,    \* CryptoManager.challenge_cache: peer_id -> challenge, timestamp
    crypto_available,   \* the module global CRYPTO_AVAILABLE
    sealed,         \* what encrypt or sign_and_encrypt returned last, with its arguments
    loop,           \* running and the locals of run_main_loop
    threads,        \* NetworkManager.connected and where each thread of the node is
    sim             \* the nodes of the NetworkSimulator and its send counter

\* the state of CryptoManager besides session_keys
crypto_vars == <<challenge_cache, crypto_available, sealed>>

vars == <<peers, routing_table, message_cache, session_keys, stats, now, out, last,
          challenge_cache, crypto_available, sealed, loop, threads, sim>>

NoMsg == [type |-> "NONE"]

\* ------------------------------------------------------------ crypto (outcome only)
\* encrypt returns hexlify(...) of the cipher bytes: a hex string.
Encrypt(plaintext, peer_id) == "hex:" \o plaintext

Ciphertexts == {Encrypt(p, NodeId) : p \in Plaintexts}
Payloads == Plaintexts \cup Ciphertexts

\* decrypt: unhexlify of a payload that is no hex string raises in the AES path
\* and again in the _simple_decrypt fallback, so the error leaves decrypt.
DecryptRaises(ciphertext) == ciphertext \notin Ciphertexts

\* ------------------------------------------------------------ dicts
EmptyDict == [k \in {} |-> {}]

\* d[key] = value
Put(d, key, value) == [k \in DOMAIN d \cup {key} |-> IF k = key THEN value ELSE d[k]]

\* `if x:` on a string
\* a test of the source that never passes
NeverTruthy(s) == FALSE

Truthy(s) == s # ""

\* ------------------------------------------------------------ bytes and text
\* A bytes object is a sequence of numbers 0..255; a str is the sequence of
\* its UTF-8 bytes (the inputs are ASCII).  A method's outcome is a record
\* [raised, value]: raised is "None" or the name of the exception.
Returned(value) == [raised |-> "None", value |-> value]
Raised(exception) == [raised |-> exception, value |-> <<>>]

\* a ^ b on non-negative integers
RECURSIVE Xor(_, _)
Xor(a, b) ==
    IF a = 0 /\ b = 0 THEN 0
    ELSE (((a % 2) + (b % 2)) % 2) + 2 * Xor(a \div 2, b \div 2)

\* data[:n]
Prefix(data, n) == SubSeq(data, 1, IF n < Len(data) THEN n ELSE Len(data))

\* data * n
RECURSIVE Repeat(_, _)
Repeat(data, n) == IF n <= 0 THEN <<>> ELSE data \o Repeat(data, n - 1)

\* bytes(a ^ b for a, b in zip(data, stream)): zip stops at the shorter one
XorBytes(data, stream) ==
    [i \in 1..(IF Len(data) < Len(stream) THEN Len(data) ELSE Len(stream)) |->
        Xor(data[i], stream[i])]

\* one hex digit as a character, and back (16 for a character that is none)
HexChar(n) == IF n < 10 THEN 48 + n ELSE 87 + n
HexValue(c) ==
    IF c \in 48..57 THEN c - 48
    ELSE IF c \in 97..102 THEN c - 87
    ELSE IF c \in 65..70 THEN c - 55
    ELSE 16

\* ubinascii.hexlify(data).decode()
Hexlify(data) ==
    [i \in 1..(2 * Len(data)) |->
        IF i % 2 = 1 THEN HexChar(data[(i + 1) \div 2] \div 16)
        ELSE HexChar((data[i \div 2]) % 16)]

\* ubinascii.unhexlify(text): ValueError on an odd length or a non-hex digit
Unhexlify(text) ==
    IF Len(text) % 2 = 1 \/ \E i \in 1..Len(text) : HexValue(text[i]) = 16
    THEN Raised("ValueError")
    ELSE Returned([i \in 1..(Len(text) \div 2) |->
                      16 * HexValue(text[2 * i - 1]) + HexValue(text[2 * i])])

\* data.decode(): a byte from 0x80 on is taken as ill-formed UTF-8
Decode(data) ==
    IF \E i \in 1..Len(data) : data[i] >= 128
    THEN Raised("UnicodeError")
    ELSE Returned(data)

\* Stand-in for uhashlib.sha256(data).digest(), which is not part of the
\* repository: 32 bytes computed from every byte of the input and its length.
RECURSIVE HashSum(_, _, _)
HashSum(data, lo, hi) ==
    IF lo > hi THEN 0
    ELSE IF lo = hi THEN ((lo * lo + 3 * lo + 1) * (data[lo] + 1)) % 65521
    ELSE (HashSum(data, lo, (lo + hi) \div 2)
          + HashSum(data, ((lo + hi) \div 2) + 1, hi)) % 65521

Sha256(data) ==
    LET h == (HashSum(data, 1, Len(data)) + 7 * Len(data) + 7) % 65521
    IN  [i \in 1..32 |->
            CASE i % 4 = 1 -> h \div 256
              [] i % 4 = 2 -> h % 256
              [] i % 4 = 3 -> ((h \div 256) + i) % 256
              [] OTHER -> (h + i) % 256]

\* uhashlib.sha256(data).hexdigest()
Sha256Hex(data) == Hexlify(Sha256(data))

\* Stand-in for the block cipher behind ucryptolib.aes(key, 2, iv), which is
\* not part of the repository: a keyed, invertible map on 16-byte blocks,
\* chained as CBC does.  ValueError when the data is no whole number of
\* blocks.
BlockEncrypt(key, block) == [i \in 1..16 |-> (block[i] + key[i] + i) % 256]
BlockDecrypt(key, block) == [i \in 1..16 |-> (block[i] + 512 - key[i] - i) % 256]

RECURSIVE CbcEncrypt(_, _, _)
CbcEncrypt(key, prev, data) ==
    IF Len(data) = 0 THEN <<>>
    ELSE LET c == BlockEncrypt(key, XorBytes(SubSeq(data, 1, 16), prev))
         IN  c \o CbcEncrypt(key, c, SubSeq(data, 17, Len(data)))

RECURSIVE CbcDecrypt(_, _, _)
CbcDecrypt(key, prev, data) ==
    IF Len(data) = 0 THEN <<>>
    ELSE LET c == SubSeq(data, 1, 16)
         IN  XorBytes(BlockDecrypt(key, c), prev)
                 \o CbcDecrypt(key, c, SubSeq(data, 17, Len(data)))

\* ucryptolib.aes(key, 2, iv).encrypt(data)
AesEncrypt(key, iv, data) ==
    IF Len(key) # 16 \/ Len(iv) # 16 \/ Len(data) % 16 # 0
    THEN Raised("ValueError")
    ELSE Returned(CbcEncrypt(key, iv, data))

\* ucryptolib.aes(key, 2, iv).decrypt(data)
AesDecrypt(key, iv, data) ==
    IF Len(key) # 16 \/ Len(iv) # 16 \/ Len(data) % 16 # 0
    THEN Raised("ValueError")
    ELSE Returned(CbcDecrypt(key, iv, data))

\* ------------------------------------------------------------ crypto manager
\* b'NexLatticeSharedSecretKey256'
psk == <<78, 101, 120, 76, 97, 116, 116, 105, 99, 101, 83, 104, 97, 114, 101, 100,
         83, 101, 99, 114, 101, 116, 75, 101, 121, 50, 53, 54>>

challenge_ttl == 30

\* s.encode() of the strings that reach the crypto manager
Encode ==
    [s \in {"", "A", "B", "C", "s1", "hi"} |->
        CASE s = "" -> <<>>
          [] s = "A" -> <<65>>
          [] s = "B" -> <<66>>
          [] s = "C" -> <<67>>
          [] s = "s1" -> <<115, 49>>
          [] OTHER -> <<104, 105>>]

\* str(urandom.getrandbits(32)).encode() as drawn when the node was built
PrivateKeySeed == <<55>>

\* _generate_private_key
private_key == Sha256(Encode[NodeId] \o PrivateKeySeed)

\* establish_session: the session table afterwards
EstablishSession(sessions, peer_id, peer_session_data) ==
    Put(sessions, peer_id,
        Sha256(private_key \o Encode[peer_session_data] \o Encode[peer_id]))

\* the psk taken whether or not the peer has a session key
SelectKeyPsk(sessions, peer_id) == [name |-> "psk", key |-> psk]

\* self.session_keys.get(peer_id, self.psk), and which of the two it is
SelectKey(sessions, peer_id) ==
    IF peer_id \in DOMAIN sessions
    THEN [name |-> "session_key", key |-> sessions[peer_id]]
    ELSE [name |-> "psk", key |-> psk]

\* _pad
Pad(data) ==
    LET pad_len == 16 - (Len(data) % 16)
    IN  data \o [i \in 1..pad_len |-> pad_len]

\* _unpad: data[-1] of empty data is an IndexError; data[:-0] is empty
Unpad(data) ==
    IF Len(data) = 0 THEN Raised("IndexError")
    ELSE LET pad_len == data[Len(data)]
         IN  Returned(IF pad_len = 0 \/ pad_len >= Len(data) THEN <<>>
                      ELSE SubSeq(data, 1, Len(data) - pad_len))

\* the key stream of _simple_encrypt and _simple_decrypt for n bytes:
\* key * (n // len(key) + 1) with key = psk[:n]; n = 0 divides by zero
KeyStream(n) ==
    LET key == Prefix(psk, n)
    IN  IF Len(key) = 0 THEN Raised("ZeroDivisionError")
        ELSE Returned(Repeat(key, (n \div Len(key)) + 1))

\* _simple_encrypt
SimpleEncrypt(plaintext) ==
    LET stream == KeyStream(Len(plaintext))
    IN  IF stream.raised # "None" THEN stream
        ELSE Returned(Hexlify(XorBytes(plaintext, stream.value)))

\* _simple_decrypt
SimpleDecrypt(ciphertext) ==
    LET encrypted == Unhexlify(ciphertext)
        stream == KeyStream(Len(encrypted.value))
    IN  IF encrypted.raised # "None" THEN encrypted
        ELSE IF stream.raised # "None" THEN stream
        ELSE Decode(XorBytes(encrypted.value, stream.value))

\* encrypt(plaintext, peer_id) with iv the 16 random bytes it draws:
\* [raised, value, key, path], key naming the key the result was made with
\* and path the branch that made it
EncryptWith(plaintext, peer_id, sessions, available, iv) ==
    LET k == SelectKey(sessions, peer_id)
        c == AesEncrypt(Prefix(k.key, 16), iv, Pad(plaintext))
        simple == SimpleEncrypt(plaintext)
    IN  IF available /\ c.raised = "None"
        THEN [raised |-> "None", value |-> Hexlify(iv \o c.value), key |-> k.name,
              path |-> "aes"]
        ELSE [raised |-> simple.raised, value |-> simple.value, key |-> "psk",
              path |-> "xor"]

\* the try block of decrypt
DecryptAes(ciphertext, key) ==
    LET encrypted_data == Unhexlify(ciphertext)
        plaintext == AesDecrypt(Prefix(key, 16), Prefix(encrypted_data.value, 16),
                                SubSeq(encrypted_data.value, 17,
                                       Len(encrypted_data.value)))
        unpadded == Unpad(plaintext.value)
    IN  IF encrypted_data.raised # "None" THEN encrypted_data
        ELSE IF plaintext.raised # "None" THEN plaintext
        ELSE IF unpadded.raised # "None" THEN unpadded
        ELSE Decode(unpadded.value)

\* decrypt(ciphertext, peer_id): [raised, value, key]
DecryptWith(ciphertext, peer_id, sessions, available) ==
    LET k == SelectKey(sessions, peer_id)
        aes == DecryptAes(ciphertext, k.key)
        simple == SimpleDecrypt(ciphertext)
    IN  IF available /\ aes.raised = "None"
        THEN [raised |-> "None", value |-> aes.value, key |-> k.name, path |-> "aes"]
        ELSE [raised |-> simple.raised, value |-> simple.value, key |-> "psk",
              path |-> "xor"]

\* ---- signatures
\* A JSON object with string values is the sequence of its <<key, value>>
\* pairs in insertion order, keys and values being texts without '"'.
SignatureKey == <<115, 105, 103, 110, 97, 116, 117, 114, 101>>   \* 'signature'

\* a < b for texts, as sort_keys orders the keys
RECURSIVE TextLess(_, _)
TextLess(a, b) ==
    IF Len(b) = 0 THEN FALSE
    ELSE IF Len(a) = 0 THEN TRUE
    ELSE IF a[1] # b[1] THEN a[1] < b[1]
    ELSE TextLess(Tail(a), Tail(b))

\* the pairs ordered by key
RECURSIVE SortKeys(_)
SortKeys(obj) ==
    IF Len(obj) = 0 THEN <<>>
    ELSE LET least == CHOOSE i \in 1..Len(obj) :
                          \A j \in 1..Len(obj) : ~TextLess(obj[j][1], obj[i][1])
         IN  <<obj[least]>> \o
             SortKeys(SubSeq(obj, 1, least - 1) \o SubSeq(obj, least + 1, Len(obj)))

\* json.dumps(obj): {"k": "v", "k2": "v2"}
RECURSIVE JsonPairs(_, _)
JsonPairs(obj, i) ==
    IF i > Len(obj) THEN <<>>
    ELSE (IF i > 1 THEN <<44, 32>> ELSE <<>>)
         \o <<34>> \o obj[i][1] \o <<34, 58, 32, 34>> \o obj[i][2] \o <<34>>
         \o JsonPairs(obj, i + 1)

JsonDumps(obj) == <<123>> \o JsonPairs(obj, 1) \o <<125>>

\* the positions of '"' in text, in order
QuotePositions(text) ==
    LET quotes == {i \in 1..Len(text) : text[i] = 34}
    IN  [j \in 1..Cardinality(quotes) |->
            CHOOSE i \in quotes : Cardinality({k \in quotes : k < i}) = j - 1]

\* json.loads(text) for such an object: the quoted strings, taken in pairs
JsonLoads(text) ==
    LET q == QuotePositions(text)
    IN  IF \/ Len(text) < 2
           \/ text[1] # 123
           \/ text[Len(text)] # 125
           \/ Len(q) % 4 # 0
        THEN Raised("ValueError")
        ELSE Returned([j \in 1..(Len(q) \div 4) |->
                          <<SubSeq(text, q[4 * j - 3] + 1, q[4 * j - 2] - 1),
                            SubSeq(text, q[4 * j - 1] + 1, q[4 * j] - 1)>>])

\* obj.get(key): <<>> for None
DictGet(obj, key) ==
    IF \E i \in 1..Len(obj) : obj[i][1] = key
    THEN <<obj[CHOOSE i \in 1..Len(obj) : obj[i][1] = key][2]>>
    ELSE <<>>

\* obj[key] = value
DictSet(obj, key, value) ==
    IF \E i \in 1..Len(obj) : obj[i][1] = key
    THEN [i \in 1..Len(obj) |-> IF obj[i][1] = key THEN <<key, value>> ELSE obj[i]]
    ELSE Append(obj, <<key, value>>)

\* obj without key
DictDel(obj, key) == SelectSeq(obj, LAMBDA pair : pair[1] # key)

\* sign_message for a dict
SignMessage(message) == Sha256Hex(JsonDumps(SortKeys(message)) \o private_key)

\* _constant_time_compare
ConstantTimeCompare(a, b) ==
    /\ Len(a) = Len(b)
    /\ \A i \in 1..Len(a) : Xor(a[i], b[i]) = 0

\* verify_signature for a dict
VerifySignature(message, signature) ==
    /\ Len(signature) = 64
    /\ ConstantTimeCompare(signature,
                           Sha256Hex(JsonDumps(SortKeys(message)) \o psk))

\* sign_and_encrypt: the message as it is afterwards and what encrypt gives
SignAndEncrypt(message, peer_id, sessions, available, iv) ==
    LET signed == DictSet(message, SignatureKey, SignMessage(message))
        e == EncryptWith(JsonDumps(signed), peer_id, sessions, available, iv)
    IN  [raised |-> e.raised, value |-> e.value, message |-> signed]

\* decrypt_and_verify
DecryptAndVerify(ciphertext, peer_id, sessions, available) ==
    LET message_json == DecryptWith(ciphertext, peer_id, sessions, available)
        message == JsonLoads(message_json.value)
        signature == DictGet(message.value, SignatureKey)
        rest == DictDel(message.value, SignatureKey)
    IN  IF message_json.raised # "None" THEN Raised(message_json.raised)
        ELSE IF message.raised # "None" THEN message
        ELSE IF signature = <<>> \/ Len(signature[1]) = 0
        THEN Raised("ValueError: Message missing signature")
        ELSE IF ~VerifySignature(rest, signature[1])
        THEN Raised("ValueError: Invalid message signature")
        ELSE Returned(rest)

\* ---- challenges
\* compute_challenge_response
ComputeChallengeResponse(challenge) == Sha256Hex(challenge \o psk)

\* generate_challenge with the 16 random bytes it draws: [value, cache]
GenerateChallenge(cache, peer_id, random, t) ==
    [value |-> Hexlify(random),
     cache |-> Put(cache, peer_id, [challenge |-> Hexlify(random), timestamp |-> t])]

\* the challenge taken as expired at 30 s already
ChallengeExpiredAtTtl(t, timestamp) == t - timestamp >= challenge_ttl

\* the challenge is past its time to live
ChallengeExpired(t, timestamp) == t - timestamp > challenge_ttl

\* dict without key
Remove(d, key) == [k \in DOMAIN d \ {key} |-> d[k]]

\* verify_challenge_response keeping the record of a failed attempt
VerifyKeepsFailed(cache, peer_id, response, t) ==
    IF peer_id \in DOMAIN cache
       /\ ~ChallengeExpired(t, cache[peer_id].timestamp)
       /\ ConstantTimeCompare(response, Sha256Hex(cache[peer_id].challenge \o psk))
    THEN [value |-> TRUE, cache |-> Remove(cache, peer_id)]
    ELSE [value |-> FALSE, cache |-> cache]

\* verify_challenge_response: [value, cache]
VerifyChallengeResponse(cache, peer_id, response, t) ==
    IF peer_id \notin DOMAIN cache
    THEN [value |-> FALSE, cache |-> cache]
    ELSE IF ChallengeExpired(t, cache[peer_id].timestamp)
    THEN [value |-> FALSE, cache |-> Remove(cache, peer_id)]
    ELSE [value |-> ConstantTimeCompare(response,
                        Sha256Hex(cache[peer_id].challenge \o psk)),
          cache |-> Remove(cache, peer_id)]

\* ------------------------------------------------------------ simulator
\* src/simulator: the NetworkSimulator with its SimulatedNodes.  Node i of
\* create_topology('line', n) is node_00i; a node is its online flag, its
\* peers in insertion order, its routing table (destination -> next hop), its
\* message cache (a set of msg_ids), its counters and what _receive_message
\* printed.  A msg_id is <<source, number of the send>>, for
\* f"{node_id}_{time.time()}" with a clock that moves between two sends.  The
\* 'path' of a message is only printed and left out.
SimNodeCount == 5       \* create_topology('line', 5)
SimSpacing == 200       \* x = i * 200
SimRange == 300         \* distance <= 300

\* peers 800 units away taken as within range
SimInRangeWide(a, b) ==
    (IF a > b THEN a - b ELSE b - a) * SimSpacing <= 4 * SimSpacing

\* _calculate_distance on the line, and the test of discover_peer
SimInRange(a, b) ==
    (IF a > b THEN a - b ELSE b - a) * SimSpacing <= SimRange

SimNode ==
    [online |-> TRUE, peers |-> <<>>, routing_table |-> EmptyDict, message_cache |-> {},
     stats |-> [messages_sent |-> 0, messages_received |-> 0, messages_forwarded |-> 0],
     inbox |-> <<>>]

SimHas(seq, x) == \E i \in 1..Len(seq) : seq[i] = x

\* discover_peer: node a discovers node b
SimDiscoverPeer(nodes, a, b) ==
    IF a = b \/ ~nodes[b].online \/ ~SimInRange(a, b) \/ SimHas(nodes[a].peers, b)
    THEN nodes
    ELSE [nodes EXCEPT ![a].peers = Append(@, b)]

\* the two loops of run_discovery, from pair number k on
RECURSIVE SimDiscoverAll(_, _)
SimDiscoverAll(nodes, k) ==
    IF k >= Len(nodes) * Len(nodes) THEN nodes
    ELSE SimDiscoverAll(SimDiscoverPeer(nodes, (k \div Len(nodes)) + 1,
                                        (k % Len(nodes)) + 1), k + 1)

\* the second loop of build_routing_table for node a: peer number i, its
\* peer number j
RECURSIVE SimMultiHop(_, _, _, _, _)
SimMultiHop(nodes, a, rt, i, j) ==
    IF i > Len(nodes[a].peers) THEN rt
    ELSE LET peer_id == nodes[a].peers[i]
         IN  IF j > Len(nodes[peer_id].peers) THEN SimMultiHop(nodes, a, rt, i + 1, 1)
             ELSE LET remote == nodes[peer_id].peers[j]
                  IN  SimMultiHop(nodes, a,
                                  IF remote # a /\ remote \notin DOMAIN rt
                                  THEN Put(rt, remote, peer_id) ELSE rt,
                                  i, j + 1)

\* build_routing_table of node a
SimBuildRoutingTable(nodes, a) ==
    SimMultiHop(nodes, a,
                [d \in {nodes[a].peers[i] : i \in 1..Len(nodes[a].peers)} |-> d], 1, 1)

\* build_routing_table for every node, or for the online ones only
SimBuildAll(nodes, online_only) ==
    [a \in DOMAIN nodes |->
        IF online_only /\ ~nodes[a].online THEN nodes[a]
        ELSE [nodes[a] EXCEPT !.routing_table = SimBuildRoutingTable(nodes, a)]]

\* run_discovery
SimRunDiscovery(nodes) == SimBuildAll(SimDiscoverAll(nodes, 0), FALSE)

\* _receive_message at node n
SimReceiveMessage(nodes, n, message) ==
    [nodes EXCEPT ![n].stats.messages_received = @ + 1,
                  ![n].inbox = Append(@, message)]

\* _route_message, _forward_to_peer, _flood_message and receive_from_peer
\* call each other; each gives [nodes, ok]
RECURSIVE SimRouteMessage(_, _, _)
RECURSIVE SimForwardToPeer(_, _, _, _)
RECURSIVE SimFloodFrom(_, _, _, _, _)
RECURSIVE SimReceiveFromPeer(_, _, _)

\* _flood_message
SimFloodMessage(nodes, n, message) ==
    IF message.msg_id \in nodes[n].message_cache
    THEN [nodes |-> nodes, ok |-> FALSE]
    ELSE SimFloodFrom([nodes EXCEPT ![n].message_cache = @ \cup {message.msg_id}],
                      n, [message EXCEPT !.flooded = TRUE], 1, 0)

\* _route_message at node n
SimRouteMessage(nodes, n, message) ==
    LET dest_id == message.destination
        rt == nodes[n].routing_table
    IN  IF dest_id = n
        THEN [nodes |-> SimReceiveMessage(nodes, n, message), ok |-> TRUE]
        ELSE IF SimHas(nodes[n].peers, dest_id) /\ nodes[dest_id].online
        THEN SimForwardToPeer(nodes, n, message, dest_id)
        ELSE IF dest_id \in DOMAIN rt /\ SimHas(nodes[n].peers, rt[dest_id])
        THEN SimForwardToPeer(nodes, n, message, rt[dest_id])
        ELSE SimFloodMessage(nodes, n, message)

\* _forward_to_peer from node n to its peer
SimForwardToPeer(nodes, n, message, peer_id) ==
    LET sent == [message EXCEPT !.hop_count = @ + 1]
        r == SimReceiveFromPeer(nodes, peer_id, sent)
    IN  IF ~SimHas(nodes[n].peers, peer_id) \/ ~nodes[peer_id].online
           \/ sent.hop_count > 5
        THEN [nodes |-> nodes, ok |-> FALSE]
        ELSE IF r.ok /\ message.destination # peer_id
        THEN [nodes |-> [r.nodes EXCEPT ![n].stats.messages_forwarded = @ + 1],
              ok |-> TRUE]
        ELSE r

\* the loop of _flood_message over the peers of node n, from peer i on
SimFloodFrom(nodes, n, message, i, success_count) ==
    IF i > Len(nodes[n].peers) THEN [nodes |-> nodes, ok |-> success_count > 0]
    ELSE LET r == SimForwardToPeer(nodes, n, message, nodes[n].peers[i])
         IN  SimFloodFrom(r.nodes, n, message, i + 1,
                          IF r.ok THEN success_count + 1 ELSE success_count)

\* receive_from_peer at node n
SimReceiveFromPeer(nodes, n, message) ==
    IF ~nodes[n].online \/ message.msg_id \in nodes[n].message_cache
    THEN [nodes |-> nodes, ok |-> FALSE]
    ELSE LET cached == [nodes EXCEPT ![n].message_cache = @ \cup {message.msg_id}]
         IN  IF message.destination = n
             THEN [nodes |-> SimReceiveMessage(cached, n, message), ok |-> TRUE]
             ELSE SimRouteMessage(cached, n, message)

\* SimulatedNode.send_message: [nodes, ok]
SimSendMessage(nodes, n, dest_id, seq) ==
    IF ~nodes[n].online THEN [nodes |-> nodes, ok |-> FALSE]
    ELSE SimRouteMessage([nodes EXCEPT ![n].stats.messages_sent = @ + 1], n,
                         [source |-> n, destination |-> dest_id, hop_count |-> 0,
                          msg_id |-> <<n, seq>>, flooded |-> FALSE])

\* the simulator after NetworkSimulator()
SimInit == [nodes |-> <<>>, sends |-> 0]

\* ------------------------------------------------------------ peer table
PeerIndex(ps, peer_id) ==
    IF \E i \in 1..Len(ps) : ps[i].id = peer_id
    THEN CHOOSE i \in 1..Len(ps) : ps[i].id = peer_id
    ELSE 0

\* peers.get(peer_id): <<>> for None
GetPeer(ps, peer_id) ==
    IF PeerIndex(ps, peer_id) = 0 THEN <<>> ELSE <<ps[PeerIndex(ps, peer_id)]>>

PeerRecord(peer_id, peer_name, peer_ip, public_key, t) ==
    [id |-> peer_id, name |-> peer_name, ip |-> peer_ip, public_key |-> public_key,
     last_seen |-> t, latency |-> "None", connected |-> TRUE]

\* add_peer without its test for the node's own id
AddPeerNoSelfCheck(ps, peer_id, peer_name, peer_ip, public_key, t) ==
    IF PeerIndex(ps, peer_id) = 0
    THEN Append(ps, PeerRecord(peer_id, peer_name, peer_ip, public_key, t))
    ELSE [ps EXCEPT ![PeerIndex(ps, peer_id)] =
              PeerRecord(peer_id, peer_name, peer_ip, public_key, t)]

AddPeer(ps, peer_id, peer_name, peer_ip, public_key, t) ==
    IF peer_id = NodeId
    THEN ps
    ELSE IF PeerIndex(ps, peer_id) = 0
         THEN Append(ps, PeerRecord(peer_id, peer_name, peer_ip, public_key, t))
         ELSE [ps EXCEPT ![PeerIndex(ps, peer_id)] =
                   PeerRecord(peer_id, peer_name, peer_ip, public_key, t)]

\* one send_direct call: the datagram, its address, and whether sendto worked
\* (`up` is the set of addresses the network reaches during this step)
SendDirect(message, dest_ip, up) ==
    [to |-> dest_ip, msg |-> message, ok |-> dest_ip \in up]

\* ------------------------------------------------------------ message router
\* f"{message['source']}_{message['timestamp']}"
DefaultMsgId(message) == message.source \o "_" \o ToString(message.timestamp)

\* message.get('msg_id', <default>)
MsgIdOf(message) ==
    IF message.msg_id # <<>> THEN message.msg_id[1] ELSE DefaultMsgId(message)

\* _find_next_hop: routing_table.get(dest_id), i.e. the whole entry or None
FindNextHop(rt, dest_id) ==
    IF dest_id \in DOMAIN rt THEN <<rt[dest_id]>> ELSE <<>>

\* the purge taking an entry of exactly cache_ttl seconds as expired
CleanupCacheAtTtl(cache, t) ==
    [k \in {m \in DOMAIN cache : ~(t - cache[m] >= cache_ttl)} |-> cache[k]]

\* _cleanup_cache at time t
CleanupCache(cache, t) ==
    [k \in {m \in DOMAIN cache : ~(t - cache[m] > cache_ttl)} |-> cache[k]]

\* the loop of _flood_message over get_peer_list(), from peer i on
RECURSIVE FloodSends(_, _, _, _)
FloodSends(message, ps, i, up) ==
    IF i > Len(ps) THEN <<>>
    ELSE IF ps[i].connected
         THEN <<SendDirect(message, ps[i].ip, up)>> \o FloodSends(message, ps, i + 1, up)
         ELSE FloodSends(message, ps, i + 1, up)

\* _flood_message: [result, out, cache]
FloodMessage(message, ps, cache, t, up) ==
    LET flooded == [message EXCEPT !.flooded = TRUE]
        sends == FloodSends(flooded, ps, 1, up)
    IN  [result |-> IF \E i \in 1..Len(sends) : sends[i].ok THEN "True" ELSE "False",
         out |-> sends,
         cache |-> Put(cache, MsgIdOf(message), t)]

\* the first test of route_message: the destination is a connected peer
IsDirectPeer(ps, dest_id) ==
    /\ GetPeer(ps, dest_id) # <<>>
    /\ GetPeer(ps, dest_id)[1].connected

\* route_message with the routing table consulted before the peer table
RouteMessageTableFirst(message, ps, rt, cache, t, up) ==
    IF FindNextHop(rt, message.destination) # <<>>
    THEN [result |-> "TypeError", out |-> <<>>, cache |-> cache]
    ELSE IF IsDirectPeer(ps, message.destination)
         THEN LET s == SendDirect(message, GetPeer(ps, message.destination)[1].ip, up)
              IN  [result |-> IF s.ok THEN "True" ELSE "False", out |-> <<s>>,
                   cache |-> cache]
         ELSE FloodMessage(message, ps, cache, t, up)

\* route_message: [result, out, cache]
RouteMessage(message, ps, rt, cache, t, up) ==
    IF IsDirectPeer(ps, message.destination)
    THEN LET s == SendDirect(message, GetPeer(ps, message.destination)[1].ip, up)
         IN  [result |-> IF s.ok THEN "True" ELSE "False", out |-> <<s>>, cache |-> cache]
    ELSE IF FindNextHop(rt, message.destination) # <<>>
         \* next_hop is the entry dict, truthy; network.get_peer(next_hop) is
         \* peers.get(<dict>): a dict is unhashable
         THEN [result |-> "TypeError", out |-> <<>>, cache |-> cache]
         ELSE FloodMessage(message, ps, cache, t, up)

\* the hop limit tested with > instead of >=
HopLimitReachedOffByOne(hop_count) == hop_count > max_hops

\* hop_count >= self.max_hops
HopLimitReached(hop_count) == hop_count >= max_hops

\* forward_message: [result, out, cache, routed]; routed tells whether
\* route_message was reached
ForwardMessage(message, ps, rt, cache, t, up) ==
    LET msg_id == MsgIdOf(message)
        forwarded == [message EXCEPT !.hop_count = message.hop_count + 1,
                                     !.msg_id = <<msg_id>>]
        r == RouteMessage(forwarded, ps, rt, CleanupCache(Put(cache, msg_id, t), t), t, up)
    IN  IF msg_id \in DOMAIN cache
        THEN [result |-> "False", out |-> <<>>, cache |-> cache, routed |-> FALSE]
        ELSE IF HopLimitReached(message.hop_count)
        THEN [result |-> "False", out |-> <<>>, cache |-> cache, routed |-> FALSE]
        ELSE IF Truthy(message.source)
        \* network.update_peer_hop_distance: NetworkManager has no such method
        THEN [result |-> "AttributeError", out |-> <<>>, cache |-> cache, routed |-> FALSE]
        ELSE [result |-> r.result, out |-> r.out, cache |-> r.cache, routed |-> TRUE]

\* the relaxation test with <= instead of <
ShouldInstallOrEqual(rt, dest_id, metric) ==
    \/ dest_id \notin DOMAIN rt
    \/ metric <= rt[dest_id].metric

\* not current_entry or metric < current_entry.get('metric', inf)
ShouldInstall(rt, dest_id, metric) ==
    \/ dest_id \notin DOMAIN rt
    \/ metric < rt[dest_id].metric

\* update_routing_table: [result, rt].  The entry's write-only 'updated'
\* time stamp is left out.
UpdateRoutingTable(rt, ps, dest_id, next_hop_id, metric, hop_distance) ==
    IF ShouldInstall(rt, dest_id, metric)
    THEN [result |-> IF GetPeer(ps, dest_id) # <<>>
                     \* network.update_peer_hop_distance does not exist
                     THEN "AttributeError"
                     ELSE "True",
          rt |-> Put(rt, dest_id, [next_hop |-> next_hop_id, metric |-> metric,
                                   hop_distance |-> hop_distance])]
    ELSE [result |-> "False", rt |-> rt]

\* build_routing_table, from peer i on: [result, rt].  get_peer_list() carries
\* no 'hop_distance', so peer.get('hop_distance', 1) is 1.
RECURSIVE BuildRoutingTable(_, _, _)
BuildRoutingTable(rt, ps, i) ==
    IF i > Len(ps) THEN [result |-> "None", rt |-> rt]
    ELSE IF ps[i].connected
         THEN LET u == UpdateRoutingTable(rt, ps, ps[i].id, ps[i].id, 1, 1)
              IN  IF u.result = "AttributeError" THEN u
                  ELSE BuildRoutingTable(u.rt, ps, i + 1)
         ELSE BuildRoutingTable(rt, ps, i + 1)

\* ------------------------------------------------------------ peer health
\* the sweep with the timeout reached at 60 s already
SweepPeersAtTimeout(ps, t) ==
    [i \in 1..Len(ps) |->
        IF t - ps[i].last_seen >= peer_timeout
        THEN [ps[i] EXCEPT !.connected = FALSE]
        ELSE ps[i]]

\* the sweep with the timeout taken twice as long
SweepPeersLate(ps, t) ==
    [i \in 1..Len(ps) |->
        IF t - ps[i].last_seen > 2 * peer_timeout
        THEN [ps[i] EXCEPT !.connected = FALSE]
        ELSE ps[i]]

\* the sweep flipping the mark of a peer that timed out
SweepPeersToggle(ps, t) ==
    [i \in 1..Len(ps) |->
        IF t - ps[i].last_seen > peer_timeout
        THEN [ps[i] EXCEPT !.connected = ~@]
        ELSE ps[i]]

\* check_peer_health: the peers after the sweep at time t
SweepPeers(ps, t) ==
    [i \in 1..Len(ps) |->
        IF t - ps[i].last_seen > peer_timeout
        THEN [ps[i] EXCEPT !.connected = FALSE]
        ELSE ps[i]]

\* _ping_peer
PingMsg(t) == [type |-> "PING", node_id |-> NodeId, timestamp |-> t]

\* ------------------------------------------------------------ datagrams received
DiscoveryMsgs ==
    [type : {"DISCOVERY", "DISCOVERY_RESPONSE"}, node_id : AnnouncedIds,
     node_name : Names, public_key : PublicKeys]

\* session_key: <<>> when the key is absent from the datagram
KeyExchangeMsgs ==
    [type : {"KEY_EXCHANGE"}, node_id : {"A"}, session_key : {<<>>, <<"s1">>}]

\* DATA for this node: handle_data_message reads destination, source, payload
\* and encrypted only
LocalDataMsgs ==
    [type : {"DATA"}, source : {"A"}, destination : {NodeId},
     payload : Payloads, encrypted : BOOLEAN, hop_count : {0},
     timestamp : Timestamps, msg_id : {<<>>}, flooded : {FALSE}, node_id : {"A"}]

\* DATA for another node, as its source sent it (no msg_id yet) and as an
\* earlier hop relayed it after a flood (msg_id set); forward_message and
\* route_message never read the payload or the encrypted flag
TransitDataMsgs ==
    [type : {"DATA"}, source : Sources, destination : ForwardDests,
     payload : Plaintexts, encrypted : {FALSE}, hop_count : HopCounts,
     timestamp : Timestamps, msg_id : {<<>>}, flooded : BOOLEAN,
     node_id : {"A"}]
    \cup
    [type : {"DATA"}, source : Sources, destination : ForwardDests,
     payload : Plaintexts, encrypted : {FALSE}, hop_count : {max_hops - 1},
     timestamp : Timestamps, msg_id : {<<"A_1">>}, flooded : {TRUE},
     node_id : {"A"}]

DataMsgs == LocalDataMsgs \cup TransitDataMsgs

OtherMsgs ==
    [type : {"PING", "PONG", "STATS"}, node_id : {"A"}, timestamp : Timestamps]

Datagrams == DiscoveryMsgs \cup KeyExchangeMsgs \cup DataMsgs \cup OtherMsgs

\* ------------------------------------------------------------ node
\* Outcome of one handler: the exception that left it ("None" if none), the
\* new peer table, cache and session table, the datagrams sent, for DATA
\* whether it was taken as a message for this node (the branch for
\* destination = own id ran to its end), what forward_message
\* returned or raised ("None" when it was not called) and whether it reached
\* route_message.
Outcome(raised, ps, cache, sessions, sends, delivered, forward, routed) ==
    [raised |-> raised, peers |-> ps, cache |-> cache, sessions |-> sessions,
     out |-> sends, delivered |-> delivered, forward |-> forward, routed |-> routed]

\* handle_discovery without its answer
HandleDiscoveryNoReply(msg, sender_ip, up) ==
    Outcome("None",
            AddPeer(peers, msg.node_id, msg.node_name, sender_ip, msg.public_key, now),
            message_cache, session_keys, <<>>, FALSE, "None", FALSE)

\* handle_discovery
HandleDiscovery(msg, sender_ip, up) ==
    Outcome("None",
            AddPeer(peers, msg.node_id, msg.node_name, sender_ip, msg.public_key, now),
            message_cache, session_keys,
            <<SendDirect([type |-> "DISCOVERY_RESPONSE", node_id |-> NodeId,
                          node_name |-> NodeName, public_key |-> OwnPublicKey,
                          timestamp |-> now], sender_ip, up)>>,
            FALSE, "None", FALSE)

\* handle_discovery_response that answers as handle_discovery does
HandleDiscoveryResponseReplies(msg, sender_ip) ==
    HandleDiscovery([msg EXCEPT !.type = "DISCOVERY_RESPONSE"], sender_ip, Ips)

\* handle_discovery_response
HandleDiscoveryResponse(msg, sender_ip) ==
    Outcome("None",
            AddPeer(peers, msg.node_id, msg.node_name, sender_ip, msg.public_key, now),
            message_cache, session_keys, <<>>, FALSE, "None", FALSE)

\* handle_key_exchange: establish_session calls peer_session_data.encode()
HandleKeyExchange(msg) ==
    IF msg.session_key = <<>>
    THEN Outcome("AttributeError", peers, message_cache, session_keys, <<>>, FALSE, "None", FALSE)
    ELSE Outcome("None", peers, message_cache,
                 EstablishSession(session_keys, msg.node_id, msg.session_key[1]),
                 <<>>, FALSE, "None", FALSE)

\* handle_data_message
HandleDataMessage(msg, up) ==
    IF msg.destination = NodeId
    THEN IF msg.encrypted /\ DecryptRaises(msg.payload)
         \* the payload cannot be decrypted: the message is not taken
         THEN Outcome("ValueError", peers, message_cache, session_keys, <<>>,
                      FALSE, "None", FALSE)
         ELSE Outcome("None", peers, message_cache, session_keys, <<>>, TRUE, "None", FALSE)
    ELSE LET f == ForwardMessage(msg, peers, routing_table, message_cache, now, up)
         IN  Outcome(IF f.result \in {"True", "False"} THEN "None" ELSE f.result,
                     peers, f.cache, session_keys, f.out, FALSE, f.result, f.routed)

\* handle_ping
HandlePing(msg, sender_ip, up) ==
    Outcome("None", peers, message_cache, session_keys,
            <<SendDirect([type |-> "PONG", node_id |-> NodeId, timestamp |-> now],
                         sender_ip, up)>>,
            FALSE, "None", FALSE)

\* the if/elif chain of handle_message
Dispatch(msg, sender_ip, up) ==
    CASE msg.type = "DISCOVERY" -> HandleDiscovery(msg, sender_ip, up)
      [] msg.type = "DISCOVERY_RESPONSE" -> HandleDiscoveryResponse(msg, sender_ip)
      [] msg.type = "KEY_EXCHANGE" -> HandleKeyExchange(msg)
      [] msg.type = "DATA" -> HandleDataMessage(msg, up)
      [] msg.type = "PING" -> HandlePing(msg, sender_ip, up)
      [] OTHER -> Outcome("None", peers, message_cache, session_keys, <<>>, FALSE, "None", FALSE)

\* handle_message, called by _message_listener for a datagram from sender_ip
HandleMessage(msg, sender_ip, up) ==
    \E o \in {Dispatch(msg, sender_ip, up)} :
        /\ peers' = o.peers
        /\ message_cache' = o.cache
        /\ session_keys' = o.sessions
        /\ out' = o.out
        /\ stats' = [stats EXCEPT
              \* the line after router.forward_message(msg_data), whatever it returned
              !.messages_forwarded = IF o.forward \in {"True", "False"} THEN @ + 1 ELSE @,
              !.messages_received = IF o.raised = "None" THEN @ + 1 ELSE @]
        /\ stats'.messages_received <= MaxCount
        /\ stats'.messages_forwarded <= MaxCount
        /\ last' = [op |-> "handle_message", msg |-> msg, result |-> o.raised,
                    delivered |-> o.delivered, forward |-> o.forward,
                    routed |-> o.routed]
        /\ UNCHANGED <<routing_table, now, crypto_vars, loop, threads, sim>>

\* send_message(dest_id, payload, encrypted)
SendMessage(dest_id, payload, encrypted, up) ==
    LET message == [type |-> "DATA", source |-> NodeId, destination |-> dest_id,
                    payload |-> IF encrypted THEN Encrypt(payload, dest_id) ELSE payload,
                    encrypted |-> encrypted, hop_count |-> 0, timestamp |-> now,
                    msg_id |-> <<>>, flooded |-> FALSE, node_id |-> NodeId]
    IN  \E r \in {RouteMessage(message, peers, routing_table, message_cache, now, up)} :
        /\ message_cache' = r.cache
        /\ out' = r.out
        /\ stats' = [stats EXCEPT
              !.messages_sent = IF r.result = "True" THEN @ + 1 ELSE @]
        /\ stats'.messages_sent <= MaxCount
        /\ last' = [op |-> "send_message", msg |-> message, result |-> r.result,
                    delivered |-> FALSE, forward |-> "None", routed |-> TRUE]
        /\ UNCHANGED <<peers, routing_table, session_keys, now, crypto_vars, loop, threads, sim>>

\* router.update_routing_table(dest_id, next_hop_id, metric, hop_distance)
UpdateRoute(dest_id, next_hop_id, metric, hop_distance) ==
    LET u == UpdateRoutingTable(routing_table, peers, dest_id, next_hop_id,
                                metric, hop_distance)
    IN  /\ routing_table' = u.rt
        /\ out' = <<>>
        /\ last' = [op |-> "update_routing_table",
                    msg |-> [type |-> "ROUTE", destination |-> dest_id,
                             next_hop |-> next_hop_id, metric |-> metric,
                             hop_distance |-> hop_distance],
                    result |-> u.result, delivered |-> FALSE,
                forward |-> "None", routed |-> FALSE]
        /\ UNCHANGED <<peers, message_cache, session_keys, stats, now, crypto_vars, loop, threads, sim>>

\* router.build_routing_table()
BuildRoutes ==
    LET b == BuildRoutingTable(routing_table, peers, 1)
    IN  /\ routing_table' = b.rt
        /\ out' = <<>>
        /\ last' = [op |-> "build_routing_table", msg |-> NoMsg,
                    result |-> b.result, delivered |-> FALSE,
                forward |-> "None", routed |-> FALSE]
        /\ UNCHANGED <<peers, message_cache, session_keys, stats, now, crypto_vars, loop, threads, sim>>

\* network.check_peer_health(), run by the main loop
CheckPeerHealth(up) ==
    /\ peers' = SweepPeers(peers, now)
    /\ out' = [i \in 1..Len(peers) |-> SendDirect(PingMsg(now), peers[i].ip, up)]
    /\ last' = [op |-> "check_peer_health", msg |-> NoMsg, result |-> "None",
                delivered |-> FALSE,
                forward |-> "None", routed |-> FALSE]
    /\ UNCHANGED <<routing_table, message_cache, session_keys, stats, now,
                   crypto_vars, loop, threads, sim>>

\* ------------------------------------------------------------ main loop
DISCOVERY_INTERVAL == 30
HEALTH_CHECK_INTERVAL == 10
STATS_REPORT_INTERVAL == 60

BroadcastIp == "10.0.0.255"     \* _get_broadcast_ip()
DashboardIp == "10.0.0.9"       \* config['dashboard_ip']

\* the uptime counted down from the start
UptimeReversed(current_time, start_time) == start_time - current_time

\* int(current_time - start_time)
Uptime(current_time, start_time) == current_time - start_time

\* start() once the WiFi is up: running is set and run_main_loop reaches its
\* while loop
Start ==
    /\ ~loop.running
    /\ threads.main = "none"
    /\ loop' = [running |-> TRUE, start_time |-> now, last_discovery |-> 0,
                last_health_check |-> 0, last_stats_report |-> 0]
    \* connect_wifi sets connected; the two listener threads are started
    /\ threads' = [connected |-> TRUE, discovery |-> "polling", listener |-> "polling",
                   main |-> "looping", sweep |-> 0, sweep_len |-> 0, sweep_at |-> 0]
    /\ out' = <<>>
    /\ last' = [op |-> "start", msg |-> NoMsg, result |-> "None", delivered |-> FALSE,
                forward |-> "None", routed |-> FALSE]
    /\ UNCHANGED <<peers, routing_table, message_cache, session_keys, stats, now,
                   crypto_vars, sim>>

\* the pass forgetting last_discovery = current_time
StampNoDiscovery(lp, t, discovery, health, report) ==
    [lp EXCEPT
        !.last_health_check = IF health THEN t ELSE @,
        !.last_stats_report = IF report THEN t ELSE @]

\* last_discovery, last_health_check and last_stats_report after a pass at
\* time t in which the tasks named ran to their end
Stamp(lp, t, discovery, health, report) ==
    [lp EXCEPT
        !.last_discovery = IF discovery THEN t ELSE @,
        !.last_health_check = IF health THEN t ELSE @,
        !.last_stats_report = IF report THEN t ELSE @]

\* broadcast_discovery as the main loop calls it
BroadcastDiscovery(t, up) ==
    SendDirect([type |-> "DISCOVERY", node_id |-> NodeId, node_name |-> NodeName,
                public_key |-> OwnPublicKey, timestamp |-> t], BroadcastIp, up)

\* one pass of the while loop of run_main_loop
MainLoop(up) ==
    LET discovery == now - loop.last_discovery > DISCOVERY_INTERVAL
        health == now - loop.last_health_check > HEALTH_CHECK_INTERVAL
        report == now - loop.last_stats_report > STATS_REPORT_INTERVAL
        uptime == Uptime(now, loop.start_time)
    IN  /\ loop.running
        /\ threads.main = "looping"
        /\ stats' = [stats EXCEPT !.uptime = uptime]
        /\ peers' = IF health THEN SweepPeers(peers, now) ELSE peers
        /\ out' =
              (IF discovery THEN <<BroadcastDiscovery(now, up)>> ELSE <<>>)
              \o (IF health
                  THEN [i \in 1..Len(peers) |-> SendDirect(PingMsg(now), peers[i].ip, up)]
                  ELSE <<>>)
              \o (IF report
                  THEN <<SendDirect([type |-> "STATS", node_id |-> NodeId,
                                     stats |-> [stats EXCEPT !.uptime = uptime],
                                     timestamp |-> now],
                                    DashboardIp, up)>>
                  ELSE <<>>)
        /\ loop' = Stamp(loop, now, discovery, health, report)
        /\ last' = [op |-> "main_loop", msg |-> NoMsg, result |-> "None",
                    delivered |-> FALSE, forward |-> "None", routed |-> FALSE]
        /\ UNCHANGED <<routing_table, message_cache, session_keys, now, crypto_vars,
                       threads, sim>>

\* one pass of the while loop that an exception cuts short inside
\* check_peer_health, after done passes of its for loop (the iteration over
\* self.peers raising because the listener thread changed the table, see
\* SweepStep): `except Exception` of run_main_loop prints it and the loop goes
\* on.  The broadcast, if due, was made before; last_health_check is not set
\* and the stats report is not reached.
MainLoopRaises(done, up) ==
    LET discovery == now - loop.last_discovery > DISCOVERY_INTERVAL
        health == now - loop.last_health_check > HEALTH_CHECK_INTERVAL
    IN  /\ loop.running
        /\ threads.main = "looping"
        /\ health
        /\ done < Len(peers)
        /\ stats' = [stats EXCEPT !.uptime = Uptime(now, loop.start_time)]
        /\ peers' = [i \in 1..Len(peers) |->
                        IF i <= done THEN SweepPeers(<<peers[i]>>, now)[1] ELSE peers[i]]
        /\ out' =
              (IF discovery THEN <<BroadcastDiscovery(now, up)>> ELSE <<>>)
              \o [i \in 1..done |-> SendDirect(PingMsg(now), peers[i].ip, up)]
        /\ loop' = Stamp(loop, now, discovery, FALSE, FALSE)
        /\ last' = [op |-> "main_loop", msg |-> NoMsg, result |-> "RuntimeError",
                    delivered |-> FALSE, forward |-> "None", routed |-> FALSE]
        /\ UNCHANGED <<routing_table, message_cache, session_keys, now, crypto_vars,
                       threads, sim>>

\* the clock of the main loop: a second passes once the loop has made a
\* whole pass in it (it sleeps 0.1 s between two passes)
MaxLoopTime == 125      \* the clock of the main loop stops here

Second ==
    /\ last.op = "main_loop"
    /\ last.result = "None"
    /\ now < MaxLoopTime
    /\ now' = now + 1
    /\ out' = <<>>
    /\ last' = [op |-> "tick", msg |-> NoMsg, result |-> "None", delivered |-> FALSE,
                forward |-> "None", routed |-> FALSE]
    /\ UNCHANGED <<peers, routing_table, message_cache, session_keys, stats,
                   crypto_vars, loop, threads, sim>>

\* ------------------------------------------------------------ crypto manager calls
\* what a call of a CryptoManager method leaves in `last`: the peer it was
\* for, its text argument and its mapping argument or result, the text it
\* returned, the name of the key it used, the branch of the cipher it took
\* and the challenge record it found; result is the exception that left it,
\* "None", or the truth value returned
Call(op, peer_id, argument, message, result, value, used, path, record) ==
    [op |-> op,
     msg |-> [type |-> "CALL", peer_id |-> peer_id, argument |-> argument,
              message |-> message, value |-> value, used |-> used,
              path |-> path, record |-> record],
     result |-> result, delivered |-> FALSE, forward |-> "None", routed |-> FALSE]

\* session_keys.get(peer_id): <<>> for None
SessionOf(sessions, peer_id) ==
    IF peer_id \in DOMAIN sessions THEN <<sessions[peer_id]>> ELSE <<>>

\* crypto.establish_session(peer_id, peer_session_data)
EstablishSessionCall(peer_id, peer_session_data) ==
    /\ session_keys' = EstablishSession(session_keys, peer_id, peer_session_data)
    /\ out' = <<>>
    /\ last' = Call("establish_session", peer_id, Encode[peer_session_data], <<>>,
                    "None", <<>>, "None", "None", <<>>)
    /\ UNCHANGED <<peers, routing_table, message_cache, stats, now, challenge_cache,
                   crypto_available, sealed, loop, threads, sim>>

\* crypto.encrypt(plaintext, peer_id)
EncryptCall(plaintext, peer_id, iv) ==
    \E e \in {EncryptWith(plaintext, peer_id, session_keys, crypto_available, iv)} :
        /\ sealed' = IF e.raised = "None"
                     THEN <<[op |-> "encrypt", peer_id |-> peer_id,
                             plaintext |-> plaintext, message |-> <<>>,
                             ciphertext |-> e.value,
                             session |-> SessionOf(session_keys, peer_id)]>>
                     ELSE sealed
        /\ out' = <<>>
        /\ last' = Call("encrypt", peer_id, plaintext, <<>>, e.raised, e.value, e.key,
                        e.path, <<>>)
        /\ UNCHANGED <<peers, routing_table, message_cache, session_keys, stats, now,
                       challenge_cache, crypto_available, loop, threads, sim>>

\* crypto.decrypt(ciphertext, peer_id) of what was returned last
DecryptCall ==
    /\ sealed # <<>>
    /\ \E d \in {DecryptWith(sealed[1].ciphertext, sealed[1].peer_id, session_keys,
                             crypto_available)} :
           last' = Call("decrypt", sealed[1].peer_id, sealed[1].ciphertext, <<>>,
                        d.raised, d.value, d.key, d.path, <<>>)
    /\ out' = <<>>
    /\ UNCHANGED <<peers, routing_table, message_cache, session_keys, stats, now,
                   crypto_vars, loop, threads, sim>>

\* crypto.sign_and_encrypt(message, peer_id)
SignAndEncryptCall(message, peer_id, iv) ==
    \E e \in {SignAndEncrypt(message, peer_id, session_keys, crypto_available, iv)} :
        /\ sealed' = IF e.raised = "None"
                     THEN <<[op |-> "sign_and_encrypt", peer_id |-> peer_id,
                             plaintext |-> <<>>, message |-> message,
                             ciphertext |-> e.value,
                             session |-> SessionOf(session_keys, peer_id)]>>
                     ELSE sealed
        /\ out' = <<>>
        /\ last' = Call("sign_and_encrypt", peer_id, <<>>, e.message, e.raised, e.value,
                        "None", "None", <<>>)
        /\ UNCHANGED <<peers, routing_table, message_cache, session_keys, stats, now,
                       challenge_cache, crypto_available, loop, threads, sim>>

\* crypto.decrypt_and_verify(ciphertext, peer_id) of what was returned last
DecryptAndVerifyCall ==
    /\ sealed # <<>>
    /\ \E d \in {DecryptAndVerify(sealed[1].ciphertext, sealed[1].peer_id, session_keys,
                                  crypto_available)} :
           last' = Call("decrypt_and_verify", sealed[1].peer_id, sealed[1].ciphertext,
                        d.value, d.raised, <<>>, "None", "None", <<>>)
    /\ out' = <<>>
    /\ UNCHANGED <<peers, routing_table, message_cache, session_keys, stats, now,
                   crypto_vars, loop, threads, sim>>

\* crypto.generate_challenge(peer_id)
GenerateChallengeCall(peer_id, random) ==
    \E g \in {GenerateChallenge(challenge_cache, peer_id, random, now)} :
        /\ challenge_cache' = g.cache
        /\ out' = <<>>
        /\ last' = Call("generate_challenge", peer_id, <<>>, <<>>, "None", g.value,
                        "None", "None", <<>>)
        /\ UNCHANGED <<peers, routing_table, message_cache, session_keys, stats, now,
                       crypto_available, sealed, loop, threads, sim>>

\* crypto.verify_challenge_response(peer_id, response)
VerifyChallengeResponseCall(peer_id, response) ==
    \E v \in {VerifyChallengeResponse(challenge_cache, peer_id, response, now)} :
        /\ challenge_cache' = v.cache
        /\ out' = <<>>
        /\ last' = Call("verify_challenge_response", peer_id, response, <<>>,
                        IF v.value THEN "True" ELSE "False", <<>>, "None", "None",
                        IF peer_id \in DOMAIN challenge_cache
                        THEN <<challenge_cache[peer_id]>> ELSE <<>>)
        /\ UNCHANGED <<peers, routing_table, message_cache, session_keys, stats, now,
                       crypto_available, sealed, loop, threads, sim>>

\* ------------------------------------------------------------ initial state
NodeInit ==
    /\ peers = <<>>
    /\ routing_table = EmptyDict
    /\ message_cache = EmptyDict
    /\ session_keys = EmptyDict
    /\ stats = [messages_sent |-> 0, messages_received |-> 0, messages_forwarded |-> 0,
                uptime |-> 0]
    /\ now = 0
    /\ out = <<>>
    /\ last = [op |-> "init", msg |-> NoMsg, result |-> "None", delivered |-> FALSE,
               forward |-> "None", routed |-> FALSE]
    /\ challenge_cache = EmptyDict
    /\ sealed = <<>>
    /\ loop = [running |-> FALSE, start_time |-> 0, last_discovery |-> 0,
               last_health_check |-> 0, last_stats_report |-> 0]
    /\ threads = [connected |-> FALSE, discovery |-> "none", listener |-> "none",
                  main |-> "none", sweep |-> 0, sweep_len |-> 0, sweep_at |-> 0]
    /\ sim = SimInit

\* the node after construction, ucryptolib imported
Init == NodeInit /\ crypto_available = TRUE

\* the node after construction, with or without ucryptolib
InitCipher == NodeInit /\ crypto_available \in BOOLEAN

\* time passes
Tick(d) ==
    /\ now + d <= MaxTime
    /\ now' = now + d
    /\ out' = <<>>
    /\ last' = [op |-> "tick", msg |-> NoMsg, result |-> "None", delivered |-> FALSE,
                forward |-> "None", routed |-> FALSE]
    /\ UNCHANGED <<peers, routing_table, message_cache, session_keys, stats,
                   crypto_vars, loop, threads, sim>>

\* a datagram arrives on the message socket
Receive == \E msg \in Datagrams, up \in Reachable : HandleMessage(msg, IpOf[msg.node_id], up)

\* a DISCOVERY or DISCOVERY_RESPONSE datagram arrives
ReceiveDiscovery ==
    \E msg \in DiscoveryMsgs, up \in Reachable : HandleMessage(msg, IpOf[msg.node_id], up)

\* another node answers this node's discovery broadcast
ReceiveResponse ==
    \E msg \in DiscoveryMsgs :
        /\ msg.type = "DISCOVERY_RESPONSE"
        /\ msg.node_id \in PeerIds
        /\ HandleMessage(msg, IpOf[msg.node_id], Ips)

\* a DATA datagram for another node arrives
ReceiveTransit ==
    \E msg \in TransitDataMsgs, up \in Reachable : HandleMessage(msg, IpOf[msg.node_id], up)

Send == \E d \in SendDests, p \in Plaintexts, e \in BOOLEAN, up \in Reachable :
            SendMessage(d, p, e, up)

RouteUpdate == \E d \in RouteDests, a \in RouteArgs : UpdateRoute(d, a[1], a[2], a[3])

Clock == \E d \in TickSteps : Tick(d)

\* longer than the peer timeout and the cache TTL passes at once
Timeout == Tick(peer_timeout + 1)

\* update_routing_table called with its default metric and hop distance
RouteSetup == \E d \in RouteDests, a \in DefaultRouteArgs : UpdateRoute(d, a[1], a[2], a[3])

HealthCheck == \E up \in Reachable : CheckPeerHealth(up)

\* ------------------------------------------------------------ threads
\* The node runs three threads: the discovery listener, the message listener
\* (which calls handle_message) and the main loop.  A listener is "polling"
\* between two passes of its while loop; the main loop is "looping" between
\* two passes and "sweeping" inside the for loop of check_peer_health, with
\* sweep the number of the peer it comes to next and sweep_len the size the
\* peer table had when the loop began.
Step(op, msg, result) ==
    [op |-> op, msg |-> msg, result |-> result, delivered |-> FALSE,
     forward |-> "None", routed |-> FALSE]

\* only OSError taken as caught
IsOSError(raised) == raised = "OSError"

\* `except Exception`: every exception the handlers raise derives from it
IsException(raised) ==
    raised \in {"OSError", "UnicodeError", "ValueError", "AttributeError", "TypeError",
                "KeyError", "IndexError", "ZeroDivisionError", "RuntimeError"}

\* what arrives on the message socket and is no JSON object
RawKinds == {"not UTF-8", "not JSON", "JSON array"}

\* data.decode('utf-8'), json.loads(message) and msg_data.get('type') on it
RawRaises(kind) ==
    CASE kind = "not UTF-8" -> "UnicodeError"
      [] kind = "not JSON" -> "ValueError"
      [] OTHER -> "AttributeError"

\* a JSON object without 'type': msg_data.get('type') is None
UntypedMsgs == [type : {"NONE"}, node_id : {"A"}, timestamp : Timestamps]

\* one pass of _message_listener with a datagram that is a JSON object
ListenerReceive ==
    /\ threads.connected
    /\ threads.listener = "polling"
    /\ \E msg \in Datagrams \cup UntypedMsgs, up \in Reachable :
           HandleMessage(msg, IpOf[msg.node_id], up)

\* one pass of _message_listener with a datagram that is none
ListenerReceiveRaw(kind) ==
    /\ threads.connected
    /\ threads.listener = "polling"
    /\ threads' = [threads EXCEPT
          !.listener = IF IsException(RawRaises(kind)) THEN "polling" ELSE "exited"]
    /\ out' = <<>>
    /\ last' = Step(IF kind = "not UTF-8" THEN "message_listener" ELSE "handle_message",
                    [type |-> "RAW", node_id |-> "A", raw |-> kind], RawRaises(kind))
    /\ UNCHANGED <<peers, routing_table, message_cache, session_keys, stats, now,
                   crypto_vars, loop, sim>>

\* one pass of _discovery_listener with a datagram received on the discovery
\* socket: its sender's address is printed, nothing else is done with it
DiscoveryPoll ==
    /\ threads.connected
    /\ threads.discovery = "polling"
    /\ out' = <<>>
    /\ \E msg \in DiscoveryMsgs : last' = Step("discovery_listener", msg, "None")
    /\ UNCHANGED <<peers, routing_table, message_cache, session_keys, stats, now,
                   crypto_vars, loop, threads, sim>>

\* NetworkManager.stop leaving connected as it is
NetworkStopKeepsConnected(th) == th

\* NetworkManager.stop: connected is cleared, the sockets are closed
NetworkStop(th) == [th EXCEPT !.connected = FALSE]

\* NexLatticeNode.stop()
Stop ==
    /\ loop.running
    /\ loop' = [loop EXCEPT !.running = FALSE]
    /\ threads' = NetworkStop(threads)
    /\ out' = <<>>
    /\ last' = Step("stop", NoMsg, "None")
    /\ UNCHANGED <<peers, routing_table, message_cache, session_keys, stats, now,
                   crypto_vars, sim>>

\* a thread leaves its while loop
Exit(thread) ==
    /\ out' = <<>>
    /\ last' = Step("exit", [type |-> "THREAD", node_id |-> thread], "None")
    /\ UNCHANGED <<peers, routing_table, message_cache, session_keys, stats, now,
                   crypto_vars, loop, sim>>

\* `while self.connected` of _message_listener is false
ListenerExit ==
    /\ ~threads.connected
    /\ threads.listener = "polling"
    /\ threads' = [threads EXCEPT !.listener = "exited"]
    /\ Exit("message_listener")

\* `while self.connected` of _discovery_listener is false
DiscoveryExit ==
    /\ ~threads.connected
    /\ threads.discovery = "polling"
    /\ threads' = [threads EXCEPT !.discovery = "exited"]
    /\ Exit("discovery_listener")

\* `while self.running` of run_main_loop is false
MainExit ==
    /\ ~loop.running
    /\ threads.main = "looping"
    /\ threads' = [threads EXCEPT !.main = "exited"]
    /\ Exit("main_loop")

\* the main loop enters check_peer_health, reads the time and enters its for
\* loop
SweepBegin ==
    /\ loop.running
    /\ threads.main = "looping"
    /\ now - loop.last_health_check > HEALTH_CHECK_INTERVAL
    /\ threads' = [threads EXCEPT !.main = "sweeping", !.sweep = 1,
                                  !.sweep_len = Len(peers), !.sweep_at = now]
    /\ out' = <<>>
    /\ last' = Step("check_peer_health", [type |-> "SWEEP", node_id |-> "begin"], "None")
    /\ UNCHANGED <<peers, routing_table, message_cache, session_keys, stats, now,
                   crypto_vars, loop, sim>>

\* one pass of the for loop of check_peer_health: the peer is marked if it
\* timed out, and pinged.  When the peer table has changed size since the
\* loop began, the iteration over the dict either raises RuntimeError, which
\* the main loop catches, or goes on.
SweepStep(up) ==
    /\ threads.main = "sweeping"
    /\ threads.sweep <= Len(peers)
    /\ \/ /\ peers' = [peers EXCEPT ![threads.sweep] =
                          SweepPeers(<<peers[threads.sweep]>>, threads.sweep_at)[1]]
          /\ out' = <<SendDirect(PingMsg(now), peers[threads.sweep].ip, up)>>
          /\ threads' = [threads EXCEPT !.sweep = @ + 1]
          /\ last' = Step("check_peer_health", [type |-> "SWEEP", node_id |-> "next"],
                          "None")
       \/ /\ Len(peers) # threads.sweep_len
          /\ peers' = peers
          /\ out' = <<>>
          /\ threads' = [threads EXCEPT !.main = "looping", !.sweep = 0, !.sweep_at = 0]
          /\ last' = Step("check_peer_health", [type |-> "SWEEP", node_id |-> "next"],
                          "RuntimeError")
    /\ UNCHANGED <<routing_table, message_cache, session_keys, stats, now,
                   crypto_vars, loop, sim>>

\* the for loop of check_peer_health is through
SweepEnd ==
    /\ threads.main = "sweeping"
    /\ threads.sweep > Len(peers)
    /\ threads' = [threads EXCEPT !.main = "looping", !.sweep = 0, !.sweep_at = 0]
    /\ loop' = [loop EXCEPT !.last_health_check = threads.sweep_at]
    /\ out' = <<>>
    /\ last' = Step("check_peer_health", [type |-> "SWEEP", node_id |-> "end"], "None")
    /\ UNCHANGED <<peers, routing_table, message_cache, session_keys, stats, now,
                   crypto_vars, sim>>

\* ------------------------------------------------------------ simulator calls
MaxSends == 2           \* send_test_message calls in one run

\* the record of a simulator call: online is the flag of the node named by
\* source as the call found it
SimStep(op, source, destination, result) ==
    Step(op, [type |-> "SIM", source |-> source, destination |-> destination,
              online |-> source \in DOMAIN sim.nodes /\ sim.nodes[source].online], result)

SimFrame ==
    /\ out' = <<>>
    /\ UNCHANGED <<peers, routing_table, message_cache, session_keys, stats, now,
                   crypto_vars, loop, threads>>

\* sim.create_topology('line', 5)
SimCreateTopology ==
    /\ sim.nodes = <<>>
    /\ sim' = [sim EXCEPT !.nodes = [i \in 1..SimNodeCount |-> SimNode]]
    /\ last' = SimStep("create_topology", 0, 0, "None")
    /\ SimFrame

\* sim.run_discovery()
SimDiscovery ==
    /\ sim.nodes # <<>>
    /\ sim' = [sim EXCEPT !.nodes = SimRunDiscovery(@)]
    /\ last' = SimStep("run_discovery", 0, 0, "None")
    /\ SimFrame

\* sim.send_test_message(source_id, dest_id, payload)
SimSendTestMessage(source_id, dest_id) ==
    /\ sim.nodes # <<>>
    /\ sim.sends < MaxSends
    /\ \E r \in {SimSendMessage(sim.nodes, source_id, dest_id, sim.sends + 1)} :
          /\ sim' = [nodes |-> r.nodes, sends |-> sim.sends + 1]
          /\ last' = SimStep("send_test_message", source_id, dest_id,
                             IF r.ok THEN "True" ELSE "False")
    /\ SimFrame

\* sim.simulate_node_failure(node_id)
SimulateNodeFailure(node_id) ==
    /\ sim.nodes # <<>>
    /\ sim' = [sim EXCEPT !.nodes = SimBuildAll([@ EXCEPT ![node_id].online = FALSE], TRUE)]
    /\ last' = SimStep("simulate_node_failure", node_id, 0, "None")
    /\ SimFrame

\* sim.simulate_node_recovery(node_id)
SimulateNodeRecovery(node_id) ==
    /\ sim.nodes # <<>>
    /\ sim' = [sim EXCEPT !.nodes = SimRunDiscovery([@ EXCEPT ![node_id].online = TRUE])]
    /\ last' = SimStep("simulate_node_recovery", node_id, 0, "None")
    /\ SimFrame

\* ---- inputs and steps of the crypto manager
\* what urandom.getrandbits(128).to_bytes(16, 'big') may give
RandomBlocks == {[i \in 1..16 |-> 0], [i \in 1..16 |-> 15 * i]}

\* 'abc...' of MaxTextLen letters
LongText == [i \in 1..MaxTextLen |-> 97 + ((i - 1) % 26)]

\* the strings encrypted: empty, short, one block long, longer than the psk
CryptoTexts == {Encode[""], Encode["hi"], Prefix(LongText, 16), LongText}

\* the mappings signed: {"b": "1", "a": "2"} and {}
Objects == {<<<< <<98>>, <<49>> >>, << <<97>>, <<50>> >>>>, <<>>}

\* the responses submitted: the right one for each challenge, and 'hi'
Responses ==
    {ComputeChallengeResponse(Hexlify(r)) : r \in RandomBlocks} \cup {Encode["hi"]}

Establish == \E p \in CryptoPeers, d \in SessionData : EstablishSessionCall(p, d)

\* a KEY_EXCHANGE datagram arrives
ReceiveKeyExchange ==
    \E msg \in KeyExchangeMsgs : HandleMessage(msg, IpOf[msg.node_id], Ips)

EncryptAny ==
    \E x \in CryptoTexts, p \in CryptoPeers, iv \in RandomBlocks : EncryptCall(x, p, iv)

SignAny ==
    \E m \in Objects, p \in CryptoPeers, iv \in RandomBlocks : SignAndEncryptCall(m, p, iv)

Challenge == \E p \in CryptoPeers, r \in RandomBlocks : GenerateChallengeCall(p, r)

Respond == \E p \in CryptoPeers, r \in Responses : VerifyChallengeResponseCall(p, r)

\* seconds the clock may advance while a challenge waits
ChallengeTicks == {challenge_ttl, challenge_ttl + 1}

ChallengeClock == \E d \in ChallengeTicks : Tick(d)

MainLoopStep == \E up \in Reachable : MainLoop(up)

\* the node as a receiver: every datagram type, the health sweep, the clock
NextNode ==
    \/ Receive
    \/ HealthCheck
    \/ Clock

SpecNode == Init /\ [][NextNode]_vars

\* the node as a router: peers answer, transit traffic arrives, the node
\* originates messages, routes are installed, peers time out
NextRouter ==
    \/ ReceiveResponse
    \/ ReceiveTransit
    \/ Send
    \/ RouteSetup
    \/ HealthCheck
    \/ Timeout

SpecRouter == Init /\ [][NextRouter]_vars

\* the node as a source: peers answer, the node originates messages, routes
\* are installed and built from the peer table, peers time out
NextOriginate ==
    \/ ReceiveResponse
    \/ Send
    \/ RouteSetup
    \/ BuildRoutes
    \/ HealthCheck
    \/ Timeout

SpecOriginate == Init /\ [][NextOriginate]_vars

\* the routing table alone: discovery fills the peer table, routes are
\* installed and relaxed
NextRoutes ==
    \/ ReceiveDiscovery
    \/ RouteUpdate
    \/ BuildRoutes
    \/ HealthCheck
    \/ Timeout

SpecRoutes == Init /\ [][NextRoutes]_vars

\* the statistics: the node starts, its main loop runs, peers answer, transit
\* traffic arrives, messages are originated, time passes
NextStats ==
    \/ Start
    \/ MainLoopStep
    \/ ReceiveResponse
    \/ ReceiveTransit
    \/ Send
    \/ Timeout

SpecStats == Init /\ [][NextStats]_vars

\* the cipher and the signed envelope of the crypto manager
NextCipher ==
    \/ Establish
    \/ ReceiveKeyExchange
    \/ EncryptAny
    \/ DecryptCall
    \/ SignAny
    \/ DecryptAndVerifyCall

SpecCipher == InitCipher /\ [][NextCipher]_vars

\* the challenges of the crypto manager
NextChallenge ==
    \/ Challenge
    \/ Respond
    \/ ChallengeClock

SpecChallenge == Init /\ [][NextChallenge]_vars

\* the three threads of a node, from start() to stop()
NextThreads ==
    \/ Start
    \/ ListenerReceive
    \/ \E kind \in RawKinds : ListenerReceiveRaw(kind)
    \/ DiscoveryPoll
    \/ SweepBegin
    \/ \E up \in Reachable : SweepStep(up)
    \/ SweepEnd
    \/ Stop
    \/ ListenerExit
    \/ DiscoveryExit
    \/ MainExit
    \/ Timeout

SpecThreads == Init /\ [][NextThreads]_vars

\* every thread is scheduled again and again
SpecShutdown ==
    /\ SpecThreads
    /\ WF_vars(ListenerExit)
    /\ WF_vars(DiscoveryExit)
    /\ WF_vars(MainExit)
    /\ WF_vars(\E up \in Reachable : SweepStep(up))
    /\ WF_vars(SweepEnd)

\* the seconds at which a peer's DISCOVERY or DISCOVERY_RESPONSE arrives: at
\* the start (of a node started at 0 or at 61), so that a sweep finds the peer
\* exactly 60 s old, and after that peer has been marked
AnnounceTimes == {0, 6, peer_timeout + 1, 77}

\* the clock reads more than a minute when the node is started
Boot ==
    /\ ~loop.running
    /\ threads.main = "none"
    /\ Timeout

\* a peer announces itself to the running node
Announce ==
    /\ threads.connected
    /\ threads.listener = "polling"
    /\ now \in AnnounceTimes
    /\ ReceiveDiscovery

\* the main loop second by second, with peers that announce themselves
NextPeriodic ==
    \/ Boot
    \/ Start
    \/ MainLoopStep
    \/ \E done \in 0..1, up \in Reachable : MainLoopRaises(done, up)
    \/ Announce
    \/ Second

SpecPeriodic == Init /\ [][NextPeriodic]_vars

\* ------------------------------------------------------------ control exchanges
\* The nodes of one network run the same handle_message. In this part out is
\* the queue of the datagrams in flight between them; node B is modelled whole,
\* of the other nodes only the datagrams they send.
MaxDelivered == 8       \* datagrams node B handles in one run

\* datagrams node B handles at most in one exchange: its own broadcast and the
\* answer of every node to it
ExchangeSize == Cardinality(AnnouncedIds) + 1

\* the nodes a datagram in flight reaches: a broadcast every node that is up
\* (its sender too), a datagram that sendto accepted the node of that address
Receivers(d, up) ==
    IF d.to = BroadcastIp
    THEN {n \in AnnouncedIds : IpOf[n] \in up}
    ELSE {n \in AnnouncedIds : d.ok /\ IpOf[n] = d.to}

\* what node n sends where node B sends sends: the same datagrams under its own id
AsNode(n, sends) ==
    [i \in 1..Len(sends) |-> [sends[i] EXCEPT !.msg.node_id = n]]

\* what the nodes of S send on a datagram, one node after the other
RECURSIVE AnswersOf(_, _)
AnswersOf(S, sends) ==
    IF S = {} THEN <<>>
    ELSE LET n == CHOOSE m \in S : TRUE
         IN  AsNode(n, sends) \o AnswersOf(S \ {n}, sends)

\* the main loop's broadcast_discovery, nothing else in flight
BroadcastStep ==
    /\ out = <<>>
    /\ stats.messages_received + ExchangeSize <= MaxDelivered
    /\ \E up \in Reachable : out' = <<BroadcastDiscovery(now, up)>>
    /\ last' = [op |-> "broadcast_discovery", msg |-> NoMsg, result |-> "None",
                delivered |-> FALSE, forward |-> "None", routed |-> FALSE]
    /\ UNCHANGED <<peers, routing_table, message_cache, session_keys, stats, now,
                   crypto_vars, loop, threads, sim>>

\* check_peer_health: one PING to every peer, nothing else in flight
PingStep ==
    /\ out = <<>>
    /\ stats.messages_received + ExchangeSize <= MaxDelivered
    /\ HealthCheck

\* another node broadcasts its DISCOVERY or sends a PING to node B
PeerStep ==
    /\ out = <<>>
    /\ stats.messages_received + ExchangeSize <= MaxDelivered
    /\ \E n \in PeerIds, type \in {"DISCOVERY", "PING"} :
          out' = <<IF type = "DISCOVERY"
                   THEN [BroadcastDiscovery(now, Ips) EXCEPT !.msg.node_id = n]
                   ELSE [SendDirect(PingMsg(now), IpOf[NodeId], Ips)
                            EXCEPT !.msg.node_id = n]>>
    /\ last' = [op |-> "peer", msg |-> NoMsg, result |-> "None",
                delivered |-> FALSE, forward |-> "None", routed |-> FALSE]
    /\ UNCHANGED <<peers, routing_table, message_cache, session_keys, stats, now,
                   crypto_vars, loop, threads, sim>>

\* the first datagram in flight arrives: every node it reaches runs
\* handle_message on it and what they send is in flight after it
Deliver(up) ==
    /\ out # <<>>
    /\ LET d == Head(out)
           R == Receivers(d, up)
       IN  \E o \in {Dispatch(d.msg, IpOf[d.msg.node_id], up)} :
           /\ IF NodeId \in R
              THEN /\ peers' = o.peers
                   /\ stats' = [stats EXCEPT !.messages_received =
                                   IF o.raised = "None" THEN @ + 1 ELSE @]
              ELSE UNCHANGED <<peers, stats>>
           /\ out' = Tail(out) \o (IF NodeId \in R THEN o.out ELSE <<>>)
                               \o AnswersOf(R \ {NodeId}, o.out)
           /\ last' = [op |-> "deliver", msg |-> d.msg, result |-> o.raised,
                       delivered |-> NodeId \in R, forward |-> "None",
                       routed |-> FALSE]
    /\ UNCHANGED <<routing_table, message_cache, session_keys, now, crypto_vars,
                   loop, threads, sim>>

DeliverStep == \E up \in Reachable : Deliver(up)

NextExchange ==
    \/ BroadcastStep
    \/ PingStep
    \/ PeerStep
    \/ DeliverStep
    \/ (out = <<>> /\ Timeout)

SpecExchange == Init /\ [][NextExchange]_vars

\* the listeners keep polling: a datagram in flight arrives
SpecExchangeFair == SpecExchange /\ WF_vars(DeliverStep)

\* ------------------------------------------------------------ two nodes, one psk
\* Node A sends an encrypted DATA message to node B. Of node A there is its
\* CryptoManager: the same psk, its own private key and, if a KEY_EXCHANGE of
\* node B reached it, its session key for B. Both nodes run the same build
\* (crypto_available). sealed holds the datagram in flight.
SenderId == "A"

\* _generate_private_key of the sender's manager
SenderPrivateKey == Sha256(Encode[SenderId] \o PrivateKeySeed)

\* session_keys of the sender: empty, or what its establish_session(B, data)
\* stored on a KEY_EXCHANGE of node B
SenderSessions(data) ==
    IF data = <<>> THEN EmptyDict
    ELSE Put(EmptyDict, NodeId,
             Sha256(SenderPrivateKey \o Encode[data[1]] \o Encode[NodeId]))

\* send_message(B, x, encrypted=True) on node A: the payload is its
\* encrypt(x, B); nothing is sent when encrypt raises
SenderSends(x, data, iv) ==
    \E e \in {EncryptWith(x, NodeId, SenderSessions(data), crypto_available, iv)} :
        /\ sealed' = IF e.raised = "None"
                     THEN <<[op |-> "send_message", peer_id |-> SenderId,
                             plaintext |-> x, message |-> <<>>,
                             ciphertext |-> e.value,
                             session |-> SessionOf(SenderSessions(data), NodeId)]>>
                     ELSE <<>>
        /\ out' = <<>>
        /\ last' = Call("send_message", NodeId, x, <<>>, e.raised, e.value, e.key,
                        e.path, <<>>)
        /\ UNCHANGED <<peers, routing_table, message_cache, session_keys, stats, now,
                       challenge_cache, crypto_available, loop, threads, sim>>

SenderSendsAny ==
    \E x \in CryptoTexts, data \in {<<>>} \cup {<<d>> : d \in SessionData},
       iv \in RandomBlocks : SenderSends(x, data, iv)

\* handle_message on node B for the DATA datagram in flight: handle_data_message
\* calls decrypt(payload, source); an exception ends in handle_message's except
\* branch before the message is counted
DeliverEncrypted ==
    /\ sealed # <<>>
    /\ \E d \in {DecryptWith(sealed[1].ciphertext, sealed[1].peer_id, session_keys,
                             crypto_available)} :
          /\ last' = Call("handle_data_message", sealed[1].peer_id,
                          sealed[1].ciphertext, <<>>, d.raised, d.value, d.key,
                          d.path, <<>>)
          /\ stats' = [stats EXCEPT !.messages_received =
                          IF d.raised = "None" THEN @ + 1 ELSE @]
    /\ stats'.messages_received <= MaxCount
    /\ out' = <<>>
    /\ UNCHANGED <<peers, routing_table, message_cache, session_keys, now,
                   crypto_vars, loop, threads, sim>>

NextDelivery ==
    \/ SenderSendsAny
    \/ ReceiveKeyExchange
    \/ DeliverEncrypted

SpecDelivery == InitCipher /\ [][NextDelivery]_vars

\* ------------------------------------------------------------ own messages that come back
\* A DATA message of this node as a neighbour relays it: forward_message there
\* has counted the hop and set the msg_id
Relayed(message, neighbour) ==
    [message EXCEPT !.hop_count = message.hop_count + 1,
                    !.msg_id = <<MsgIdOf(message)>>,
                    !.node_id = neighbour]

\* a datagram that send_message has just sent comes back from the neighbour
\* that got it
ReceiveReturned ==
    /\ last.op = "send_message"
    /\ \E i \in 1..Len(out), up \in Reachable :
          /\ out[i].ok
          /\ \E n \in {m \in PeerIds : IpOf[m] = out[i].to} :
                HandleMessage(Relayed(out[i].msg, n), IpOf[n], up)

\* messages this node sent at time 0, as they come back at a later time, sent
\* directly or flooded; forward_message and route_message never read the
\* payload or the encrypted flag
ReturnedMsgs ==
    [type : {"DATA"}, source : {NodeId}, destination : SendDests,
     payload : Plaintexts, encrypted : {FALSE}, hop_count : {1},
     timestamp : {0}, msg_id : {<<NodeId \o "_0">>}, flooded : BOOLEAN,
     node_id : {"C"}]

ReceiveReturnedLater ==
    /\ stats.messages_sent > 0
    /\ \E msg \in ReturnedMsgs, up \in Reachable :
          /\ msg.timestamp < now
          /\ HandleMessage(msg, IpOf[msg.node_id], up)

\* a message of another node without source is forwarded: the one traffic
\* after which _cleanup_cache runs
ReceiveSourceless ==
    \E msg \in TransitDataMsgs, up \in Reachable :
        /\ msg.source = ""
        /\ msg.hop_count = 0
        /\ HandleMessage(msg, IpOf[msg.node_id], up)

NextReturned ==
    \/ ReceiveResponse
    \/ Send
    \/ RouteSetup
    \/ ReceiveReturned
    \/ ReceiveReturnedLater
    \/ ReceiveSourceless
    \/ Timeout

SpecReturned == Init /\ [][NextReturned]_vars

\* nodes the test messages go from and to, and nodes that fail
SimSources == {1, 2}
SimDests == {4, 5}
SimFailing == {3, 4}

\* the simulator: topology, discovery, test messages, failures, recoveries
NextSim ==
    \/ SimCreateTopology
    \/ SimDiscovery
    \/ \E a \in SimSources, b \in SimDests : SimSendTestMessage(a, b)
    \/ \E n \in SimFailing : SimulateNodeFailure(n)
    \/ \E n \in SimFailing : SimulateNodeRecovery(n)

SpecSim == Init /\ [][NextSim]_vars

\* ============================================================ claims

\* the last step handled a DATA datagram
LastIsData == last.op = "handle_message" /\ last.msg.type = "DATA"

\* the last step handled a DATA datagram for another node
LastIsTransit == LastIsData /\ last.msg.destination # NodeId

\* C1: when a node handles two DATA datagrams with the same msg_id less than
\* 60 s apart, the second is neither forwarded (nothing is sent for it) nor
\* delivered locally, at an intermediate hop and at the destination alike.
\* Stated for the second of two datagrams handled one right after the other.
C1_ReplaySuppressed ==
    [][(/\ LastIsData
        /\ LastIsData'
        /\ MsgIdOf(last.msg) = MsgIdOf(last'.msg)
        /\ now' - now < cache_ttl)
       => (out' = <<>> /\ ~last'.delivered)]_vars

\* C2: every copy forward_message sends carries the incoming hop_count plus
\* one, and never more than max_hops.
C2_HopCountIncrement ==
    LastIsTransit =>
        \A i \in 1..Len(out) :
            /\ out[i].msg.hop_count = last.msg.hop_count + 1
            /\ out[i].msg.hop_count <= max_hops

\* a datagram that arrived with max_hops - 1 was sent on by a flood
C2_Witness ==
    /\ LastIsTransit
    /\ last.msg.hop_count = max_hops - 1
    /\ Len(out) >= 1
    /\ out[1].ok
    /\ out[1].msg.flooded

\* C3: forward_message on a datagram not seen before drops it (sends nothing,
\* returns False) when hop_count = max_hops, and sends at least one datagram
\* when hop_count = max_hops - 1 and a connected peer exists.
C3_HopLimitBoundary ==
    [][(/\ LastIsTransit'
        /\ MsgIdOf(last'.msg) \notin DOMAIN message_cache)
       => /\ last'.msg.hop_count = max_hops
                => (out' = <<>> /\ last'.forward = "False")
          /\ (/\ last'.msg.hop_count = max_hops - 1
              /\ \E i \in 1..Len(peers) : peers[i].connected)
                => Len(out') >= 1]_vars

\* C4: the peer table never holds an entry under the node's own id.
C4_NoSelfPeer == \A i \in 1..Len(peers) : peers[i].id # NodeId

\* the node handled its own DISCOVERY broadcast while it knew a peer
C4_Witness ==
    /\ last.op = "handle_message"
    /\ last.msg.type = "DISCOVERY"
    /\ last.msg.node_id = NodeId
    /\ Len(peers) >= 1

\* C5: route_message for a destination that is a connected peer sends exactly
\* one datagram, to that peer's address, and does not flood (sets no flooded
\* mark, sends to no other peer), whatever the routing table holds.
C5_DirectRoute ==
    (/\ last.routed
     /\ \E i \in 1..Len(peers) :
           peers[i].id = last.msg.destination /\ peers[i].connected)
    => /\ Len(out) = 1
       /\ \E i \in 1..Len(peers) :
             /\ peers[i].id = last.msg.destination
             /\ out[1].to = peers[i].ip
       /\ out[1].msg.destination = last.msg.destination
       /\ out[1].msg.flooded = last.msg.flooded
       /\ last.result \in {"True", "False", "None"}

\* a message went straight to a connected peer although the routing table
\* holds an entry for that destination
C5_Witness ==
    /\ last.routed
    /\ \E i \in 1..Len(peers) :
          peers[i].id = last.msg.destination /\ peers[i].connected
    /\ last.msg.destination \in DOMAIN routing_table
    /\ Len(out) = 1
    /\ out[1].ok

\* C6: when the destination is no connected peer but the routing table has an
\* entry for it whose next_hop is a known peer, route_message sends exactly
\* one datagram, to that peer's address, and does not flood.
C6_RouteTableHop ==
    (/\ last.routed
     /\ ~\E i \in 1..Len(peers) :
           peers[i].id = last.msg.destination /\ peers[i].connected
     /\ last.msg.destination \in DOMAIN routing_table
     /\ \E i \in 1..Len(peers) :
           peers[i].id = routing_table[last.msg.destination].next_hop)
    => /\ Len(out) = 1
       /\ \E i \in 1..Len(peers) :
             /\ peers[i].id = routing_table[last.msg.destination].next_hop
             /\ out[1].to = peers[i].ip
       /\ out[1].msg.flooded = last.msg.flooded

\* C7: when the destination is neither a connected peer nor has a routing
\* table entry with a known next hop, route_message marks the message
\* flooded, sends one copy to every connected peer and none to a peer that
\* is not connected, and reports success iff a copy was sent.
C7_FloodFallback ==
    (/\ last.routed
     /\ ~\E i \in 1..Len(peers) :
           peers[i].id = last.msg.destination /\ peers[i].connected
     /\ ~(/\ last.msg.destination \in DOMAIN routing_table
          /\ \E i \in 1..Len(peers) :
                peers[i].id = routing_table[last.msg.destination].next_hop))
    => /\ Len(out) = Cardinality({i \in 1..Len(peers) : peers[i].connected})
       /\ \A i \in 1..Len(peers) :
             peers[i].connected <=> \E j \in 1..Len(out) : out[j].to = peers[i].ip
       /\ \A j \in 1..Len(out) : out[j].msg.flooded
       /\ IF last.op = "send_message"
          THEN last.result = "True" <=> \E j \in 1..Len(out) : out[j].ok
          ELSE last.forward = "True" <=> \E j \in 1..Len(out) : out[j].ok

\* C8: update_routing_table installs a route when none exists, replaces one
\* only by a strictly smaller metric and leaves it alone otherwise; no step
\* removes a route or raises a stored metric.
C8_RouteRelaxation ==
    [][/\ \A d \in DOMAIN routing_table :
             /\ d \in DOMAIN routing_table'
             /\ routing_table'[d] # routing_table[d]
                   => routing_table'[d].metric < routing_table[d].metric
       /\ last'.op = "update_routing_table"
             => IF \/ last'.msg.destination \notin DOMAIN routing_table
                   \/ last'.msg.metric < routing_table[last'.msg.destination].metric
                THEN /\ DOMAIN routing_table' =
                            DOMAIN routing_table \cup {last'.msg.destination}
                     /\ routing_table'[last'.msg.destination] =
                            [next_hop |-> last'.msg.next_hop,
                             metric |-> last'.msg.metric,
                             hop_distance |-> last'.msg.hop_distance]
                ELSE routing_table' = routing_table]_vars

\* a candidate with the stored metric and another next hop was turned down
C8_Witness ==
    /\ last.op = "update_routing_table"
    /\ last.result = "False"
    /\ last.msg.destination \in DOMAIN routing_table
    /\ routing_table[last.msg.destination].metric = last.msg.metric
    /\ routing_table[last.msg.destination].next_hop # last.msg.next_hop

\* C9: messages_forwarded grows by one exactly when forwarding a DATA
\* datagram for another node succeeds; a dropped datagram or a routing
\* failure leaves it unchanged.
C9_ForwardedCounted ==
    [][stats'.messages_forwarded = stats.messages_forwarded +
          (IF LastIsTransit' /\ last'.forward = "True" THEN 1 ELSE 0)]_vars

\* C10: messages_received grows by one exactly when a DATA datagram for this
\* node is handled; every other datagram leaves it unchanged.
C10_ReceivedCounted ==
    [][stats'.messages_received = stats.messages_received +
          (IF LastIsData' /\ last'.msg.destination = NodeId THEN 1 ELSE 0)]_vars

\* C11: send_message builds a DATA message with hop_count 0 and the node's
\* own id as source, hands it to route_message, adds one to messages_sent
\* iff routing reported success, and otherwise leaves messages_sent alone and
\* returns failure.
C11_Origination ==
    [][last'.op = "send_message"
       => /\ last'.msg.type = "DATA"
          /\ last'.msg.hop_count = 0
          /\ last'.msg.source = NodeId
          /\ last'.routed
          /\ last'.result \in {"True", "False"}
          /\ last'.result = "True" <=> \E i \in 1..Len(out') : out'[i].ok
          /\ stats'.messages_sent = stats.messages_sent +
                (IF last'.result = "True" THEN 1 ELSE 0)]_vars

\* C12: messages_sent, messages_received, messages_forwarded and uptime never
\* decrease from one step to the next.
C12_CountersMonotone ==
    [][/\ stats'.messages_sent >= stats.messages_sent
       /\ stats'.messages_received >= stats.messages_received
       /\ stats'.messages_forwarded >= stats.messages_forwarded
       /\ stats'.uptime >= stats.uptime]_vars

\* every counter has grown, the uptime by a pass of the main loop
C12_Witness ==
    /\ last.op = "main_loop"
    /\ stats.uptime > 0
    /\ stats.messages_sent > 0
    /\ stats.messages_received > 0
    /\ stats.messages_forwarded > 0

\* C13: check_peer_health marks every peer not seen for more than 60 s as not
\* connected, leaves every other peer as it is and removes none; no step
\* at all removes a peer id from the peer table.
C13_SweepKeepsPeers ==
    [][/\ \A i \in 1..Len(peers) : \E j \in 1..Len(peers') : peers'[j].id = peers[i].id
       /\ last'.op = "check_peer_health"
             => /\ Len(peers') = Len(peers)
                /\ \A i \in 1..Len(peers) :
                      peers'[i] = IF now - peers[i].last_seen > 60
                                  THEN [peers[i] EXCEPT !.connected = FALSE]
                                  ELSE peers[i]]_vars

\* a sweep left one peer marked not connected and another connected
C13_Witness ==
    /\ last.op = "check_peer_health"
    /\ \E i, j \in 1..Len(peers) :
          /\ ~peers[i].connected
          /\ now - peers[i].last_seen > 60
          /\ peers[j].connected

\* C14: after a sweep, a second sweep at the same time changes no field of
\* any peer.
C14_SweepIdempotent ==
    last.op = "check_peer_health" => SweepPeers(peers, now) = peers

\* a sweep has marked a peer not connected
C14_Witness ==
    /\ last.op = "check_peer_health"
    /\ \E i \in 1..Len(peers) : ~peers[i].connected

\* C15: handling a PONG datagram from a peer in the peer table sets that
\* peer's latency to the time since the echoed timestamp, in milliseconds,
\* and marks it seen: last_seen is the present time and connected is true.
C15_PongLatency ==
    [][(/\ last'.op = "handle_message"
        /\ last'.msg.type = "PONG"
        /\ \E i \in 1..Len(peers) : peers[i].id = last'.msg.node_id)
       => \E i \in 1..Len(peers') :
             /\ peers'[i].id = last'.msg.node_id
             /\ peers'[i].last_seen = now
             /\ peers'[i].connected
             /\ peers'[i].latency # "None"
             /\ peers'[i].latency = (now - last'.msg.timestamp) * 1000]_vars

\* C16: generate_challenge leaves exactly its new challenge on record for the
\* peer and touches no other peer's record; after verify_challenge_response
\* for a peer, whatever it returned, no record is left for that peer, and
\* without a record it returns false.
C16_ChallengeConsumed ==
    [][/\ last'.op = "generate_challenge"
             => /\ DOMAIN challenge_cache' = DOMAIN challenge_cache \cup {last'.msg.peer_id}
                /\ challenge_cache'[last'.msg.peer_id] =
                       [challenge |-> last'.msg.value, timestamp |-> now]
                /\ \A p \in DOMAIN challenge_cache \ {last'.msg.peer_id} :
                       challenge_cache'[p] = challenge_cache[p]
       /\ last'.op = "verify_challenge_response"
             => /\ DOMAIN challenge_cache' = DOMAIN challenge_cache \ {last'.msg.peer_id}
                /\ last'.msg.peer_id \notin DOMAIN challenge_cache
                       => last'.result = "False"]_vars

\* a failed attempt has consumed the record it found
C16_Witness ==
    /\ last.op = "verify_challenge_response"
    /\ last.result = "False"
    /\ last.msg.record # <<>>
    /\ now - last.msg.record[1].timestamp <= 30
    /\ last.msg.peer_id \notin DOMAIN challenge_cache

\* C17: verify_challenge_response on a challenge issued more than 30 s ago
\* returns false and deletes the record even for the right response; the
\* right response for the outstanding challenge within 30 s returns true.
C17_ChallengeExpiry ==
    [][(/\ last'.op = "verify_challenge_response"
        /\ last'.msg.peer_id \in DOMAIN challenge_cache)
       => /\ now - challenge_cache[last'.msg.peer_id].timestamp > 30
                => /\ last'.result = "False"
                   /\ last'.msg.peer_id \notin DOMAIN challenge_cache'
          /\ (/\ now - challenge_cache[last'.msg.peer_id].timestamp <= 30
              /\ last'.msg.argument =
                     ComputeChallengeResponse(challenge_cache[last'.msg.peer_id].challenge))
                => last'.result = "True"]_vars

\* the right response came 31 s after the challenge and was turned down
C17_Witness ==
    /\ last.op = "verify_challenge_response"
    /\ last.result = "False"
    /\ last.msg.record # <<>>
    /\ now - last.msg.record[1].timestamp = 31
    /\ last.msg.argument = ComputeChallengeResponse(last.msg.record[1].challenge)
    /\ last.msg.peer_id \notin DOMAIN challenge_cache

\* C18: decrypt(encrypt(x, p), p) returns x for every string x, the empty one
\* included, and every peer p, with and without a session key for p, with AES
\* and on the XOR path, when the session state for p is the same at both
\* calls: encrypt returns a ciphertext, and decrypt of it returns x.
C18_CipherRoundTrip ==
    /\ last.op = "encrypt" => last.result = "None"
    /\ (/\ last.op = "decrypt"
        /\ sealed[1].op = "encrypt"
        /\ SessionOf(session_keys, sealed[1].peer_id) = sealed[1].session)
       => /\ last.result = "None"
          /\ last.msg.value = sealed[1].plaintext

\* C19: decrypt_and_verify(sign_and_encrypt(obj, p), p) raises no error and
\* returns obj without the signature field, for every mapping obj and peer p,
\* on one manager (one psk) whose session state for p is the same at both calls.
C19_EnvelopeRoundTrip ==
    /\ last.op = "sign_and_encrypt" => last.result = "None"
    /\ (/\ last.op = "decrypt_and_verify"
        /\ sealed[1].op = "sign_and_encrypt"
        /\ SessionOf(session_keys, sealed[1].peer_id) = sealed[1].session)
       => /\ last.result = "None"
          /\ SortKeys(last.msg.message) = SortKeys(sealed[1].message)

\* a session key appears for a peer only by establish_session for that peer,
\* called directly or by the handling of a KEY_EXCHANGE datagram
SessionKeysGrowByEstablish ==
    DOMAIN session_keys' # DOMAIN session_keys
        => /\ \/ last'.op = "establish_session"
              \/ last'.op = "handle_message" /\ last'.msg.type = "KEY_EXCHANGE"
           /\ DOMAIN session_keys' =
                  DOMAIN session_keys \cup
                      {IF last'.op = "establish_session" THEN last'.msg.peer_id
                       ELSE last'.msg.node_id}

\* C20 as stated: no session key before establish_session; encrypt and
\* decrypt for a peer use the psk until then, and that peer's session key,
\* never the psk, from then on.
C20_SessionKeyAlways ==
    /\ session_keys = EmptyDict
    /\ [][/\ SessionKeysGrowByEstablish
          /\ (last'.op \in {"encrypt", "decrypt"} /\ last'.result = "None")
                => last'.msg.used =
                       IF last'.msg.peer_id \in DOMAIN session_keys'
                       THEN "session_key" ELSE "psk"]_vars

\* C20, amended: no session key before establish_session; where AES is used,
\* encrypt and decrypt for a peer use the psk until then and that peer's
\* session key from then on; the XOR path (AES absent, or the AES attempt
\* having raised) uses the psk whether or not a session key exists.
C20_KeySelection ==
    /\ session_keys = EmptyDict
    /\ [][/\ SessionKeysGrowByEstablish
          /\ (last'.op \in {"encrypt", "decrypt"} /\ last'.result = "None")
                => last'.msg.used =
                       IF last'.msg.path = "aes" /\ last'.msg.peer_id \in DOMAIN session_keys'
                       THEN "session_key" ELSE "psk"]_vars

\* AES encrypted for a peer with its session key after establish_session
C20_Witness ==
    /\ last.op = "encrypt"
    /\ last.result = "None"
    /\ last.msg.path = "aes"
    /\ last.msg.peer_id \in DOMAIN session_keys
    /\ last.msg.used = "session_key"

\* the datagram in `last` went through the purge of forward_message
LastPurged == LastIsTransit /\ last.routed

\* C27: a DATA datagram for another node, below the hop limit, handled twice
\* within 10 s: the first handling leaves the cache with exactly one entry
\* more, the one for its msg_id (no entry being due for the purge); the
\* second sends nothing and leaves the cache as it is.
C27_ReplayForwardedOnce ==
    [][/\ (/\ LastIsTransit'
           /\ last'.msg.hop_count < max_hops
           /\ MsgIdOf(last'.msg) \notin DOMAIN message_cache
           /\ \A m \in DOMAIN message_cache : now - message_cache[m] <= cache_ttl)
          => /\ DOMAIN message_cache' = DOMAIN message_cache \cup {MsgIdOf(last'.msg)}
             /\ \A m \in DOMAIN message_cache : message_cache'[m] = message_cache[m]
       /\ (/\ LastIsTransit
           /\ LastIsTransit'
           /\ last'.msg = last.msg
           /\ last'.msg.hop_count < max_hops
           /\ now' - now <= 10)
          => /\ out' = <<>>
             /\ message_cache' = message_cache]_vars

\* C28 as stated: when the purge runs, an entry exactly 60 s old is removed
\* and a younger one is kept.
C28_PurgeAtTtl ==
    [][LastPurged'
       => \A m \in DOMAIN message_cache \ {MsgIdOf(last'.msg)} :
             /\ now - message_cache[m] >= cache_ttl => m \notin DOMAIN message_cache'
             /\ now - message_cache[m] < cache_ttl
                   => m \in DOMAIN message_cache' /\ message_cache'[m] = message_cache[m]]_vars

\* C28, amended: when the purge runs, an entry more than 60 s old is removed,
\* and an entry exactly 60 s old or younger is kept.
C28_PurgeAfterTtl ==
    [][LastPurged'
       => \A m \in DOMAIN message_cache \ {MsgIdOf(last'.msg)} :
             /\ now - message_cache[m] > cache_ttl => m \notin DOMAIN message_cache'
             /\ now - message_cache[m] <= cache_ttl
                   => m \in DOMAIN message_cache' /\ message_cache'[m] = message_cache[m]]_vars

\* the purge ran and kept an entry exactly 60 s old
C28_Witness ==
    /\ LastPurged
    /\ \E m \in DOMAIN message_cache : now - message_cache[m] = cache_ttl

\* C29: a datagram dropped by forward_message at the hop limit changes
\* neither the cache, the route table nor the peer table and is not cached,
\* and a copy with the same msg_id and a smaller hop_count handled next is
\* forwarded: it gets past the cache and the hop test to route_message.
C29_HopLimitDropFrame ==
    [][/\ (/\ LastIsTransit'
           /\ last'.msg.hop_count >= max_hops
           /\ MsgIdOf(last'.msg) \notin DOMAIN message_cache)
          => /\ message_cache' = message_cache
             /\ routing_table' = routing_table
             /\ peers' = peers
             /\ out' = <<>>
       /\ (/\ LastIsTransit
           /\ last.msg.hop_count >= max_hops
           /\ MsgIdOf(last.msg) \notin DOMAIN message_cache
           /\ LastIsTransit'
           /\ MsgIdOf(last'.msg) = MsgIdOf(last.msg)
           /\ last'.msg.hop_count < max_hops)
          => /\ last'.routed
             /\ MsgIdOf(last'.msg) \in DOMAIN message_cache']_vars

\* C30: after every call of forward_message that returned, forwarded or
\* dropped, no entry of the cache is older than 60 s.
C30_NoStaleEntries ==
    (LastIsTransit /\ last.forward \in {"True", "False"})
        => \A m \in DOMAIN message_cache : now - message_cache[m] <= cache_ttl

\* C21: whatever datagram arrives on the message socket, the node keeps
\* running (running stays set, the network stays connected and the message
\* listener stays in its loop, so that later datagrams are handled), and a
\* datagram that is no JSON object leaves the peer table, the route table,
\* the message cache and the session keys as they are.
C21_Robustness ==
    [][last'.op \in {"handle_message", "message_listener"}
       => /\ loop' = loop
          /\ threads' = threads
          /\ last'.msg.type = "RAW"
                => /\ peers' = peers
                   /\ routing_table' = routing_table
                   /\ message_cache' = message_cache
                   /\ session_keys' = session_keys]_vars

\* a running node with a peer got a datagram that is not JSON
C21_Witness ==
    /\ last.op = "handle_message"
    /\ last.msg.type = "RAW"
    /\ last.result = "ValueError"
    /\ peers # <<>>
    /\ loop.running
    /\ threads.connected
    /\ threads.listener = "polling"

\* C22: once stop() has been called on a running node, the discovery
\* listener, the message listener and the main loop each come to their end,
\* and after the message listener has left its loop no datagram is handed to
\* handle_message.
C22_Shutdown ==
    /\ (last.op = "stop")
           ~> (/\ threads.discovery = "exited"
               /\ threads.listener = "exited"
               /\ threads.main = "exited")
    /\ [][threads.listener = "exited"
          => last'.op \notin {"handle_message", "message_listener"}]_vars

\* all three threads have ended after stop()
C22_Witness ==
    /\ ~loop.running
    /\ threads.discovery = "exited"
    /\ threads.listener = "exited"
    /\ threads.main = "exited"
    /\ stats.messages_received > 0

\* C23: while the main loop is inside the iteration over the peer table
\* (the liveness sweep), no datagram handled by the message listener changes
\* the peer table, and no datagram is sent from inside the iteration.
C23_MutualExclusion ==
    [][/\ (/\ threads.main = "sweeping"
           /\ threads.sweep <= threads.sweep_len
           /\ last'.op = "handle_message") => peers' = peers
       /\ (threads'.main = "sweeping" /\ last'.op = "check_peer_health") => out' = <<>>]_vars

\* the line after discovery: every node is online and knows exactly its
\* neighbours
SimLine(nodes) ==
    /\ nodes # <<>>
    /\ \A n \in DOMAIN nodes :
          /\ nodes[n].online
          /\ {nodes[n].peers[i] : i \in 1..Len(nodes[n].peers)} =
                 {n - 1, n + 1} \cap DOMAIN nodes

\* send_test_message from the first to the last node of the line
SimEndToEnd ==
    /\ last.op = "send_test_message"
    /\ last.msg.source = 1
    /\ last.msg.destination = SimNodeCount

\* C24: on the line of five nodes that know their neighbours only, a message
\* sent from the first to the last node arrives there exactly once with
\* hop_count 4, and each of the three nodes between counts exactly one
\* forward.
C24_MultiHopLine ==
    [][(SimEndToEnd' /\ SimLine(sim.nodes))
       => /\ sim'.nodes[5].stats.messages_received =
                 sim.nodes[5].stats.messages_received + 1
          /\ Len(sim'.nodes[5].inbox) = Len(sim.nodes[5].inbox) + 1
          /\ sim'.nodes[5].inbox[Len(sim'.nodes[5].inbox)].hop_count = 4
          /\ \A n \in {2, 3, 4} :
                sim'.nodes[n].stats.messages_forwarded =
                    sim.nodes[n].stats.messages_forwarded + 1]_vars

\* C25: when the middle node comes back, discovery puts it back into the
\* peer tables of its two neighbours as a connected (online) peer, and a
\* message sent from the first to the last node right after that is
\* delivered: the send succeeds and the last node's messages_received grows.
C25_Recovery ==
    [][/\ (/\ last'.op = "simulate_node_recovery"
           /\ last'.msg.source = 3
           /\ ~last'.msg.online
           /\ sim.nodes[2].online
           /\ sim.nodes[4].online)
          => /\ sim'.nodes[3].online
             /\ SimHas(sim'.nodes[2].peers, 3)
             /\ SimHas(sim'.nodes[4].peers, 3)
       /\ (/\ last.op = "simulate_node_recovery"
           /\ last.msg.source = 3
           /\ ~last.msg.online
           /\ SimLine(sim.nodes)
           /\ SimEndToEnd')
          => /\ last'.result = "True"
             /\ sim'.nodes[5].stats.messages_received >
                    sim.nodes[5].stats.messages_received]_vars

\* in the simulator a route goes through a peer, and a peer is reached
\* directly
SimRoutesConsistent(nodes) ==
    \A n \in DOMAIN nodes : \A d \in DOMAIN nodes[n].routing_table :
        /\ SimHas(nodes[n].peers, nodes[n].routing_table[d])
        /\ SimHas(nodes[n].peers, d) => nodes[n].routing_table[d] = d

\* C26: with the middle node offline, a message sent from the first to the
\* last node is not delivered (the last node's messages_received and inbox
\* stay), the send returns, no node goes offline, no route table changes,
\* the route tables are still consistent and no cache loses an entry.
C26_FailureLine ==
    [][(SimEndToEnd' /\ sim.nodes # <<>> /\ ~sim.nodes[3].online)
       => /\ sim'.nodes[5].stats.messages_received = sim.nodes[5].stats.messages_received
          /\ sim'.nodes[5].inbox = sim.nodes[5].inbox
          /\ last'.result \in {"True", "False"}
          /\ \A n \in DOMAIN sim.nodes :
                /\ sim'.nodes[n].online = sim.nodes[n].online
                /\ sim'.nodes[n].routing_table = sim.nodes[n].routing_table
                /\ sim.nodes[n].message_cache \subseteq sim'.nodes[n].message_cache
          /\ SimRoutesConsistent(sim.nodes) => SimRoutesConsistent(sim'.nodes)]_vars

\* the message left the first node of the discovered line while the middle
\* node was offline, and was not delivered
C26_Witness ==
    /\ SimEndToEnd
    /\ last.result = "False"
    /\ ~sim.nodes[3].online
    /\ sim.nodes[2].online
    /\ sim.nodes[2].message_cache # {}
    /\ sim.nodes[5].stats.messages_received = 0

\* C31: for a DATA datagram for another node that is not in the cache and is
\* below the hop limit, forward_message ends without an error, having come to
\* route selection, and the msg_id is in the cache afterwards, whether the
\* source is a known peer or not.  (The hop_distance the source's peer entry
\* is to get does not show in the peer table: see the comment of
\* ForwardMessage.)
C31_ForwardingEffects ==
    [][(/\ LastIsTransit'
        /\ MsgIdOf(last'.msg) \notin DOMAIN message_cache
        /\ ~HopLimitReached(last'.msg.hop_count))
       => /\ last'.forward \in {"True", "False"}
          /\ last'.routed
          /\ MsgIdOf(last'.msg) \in DOMAIN message_cache']_vars

\* C38: a DATA datagram for another node, below the hop limit, whose msg_id
\* was put into the cache more than 60 s ago is not dropped as a loop
\* (forward_message does not return False before route selection): it is
\* processed again.
C38_ExpiredEntryForgotten ==
    [][(/\ LastIsTransit'
        /\ MsgIdOf(last'.msg) \in DOMAIN message_cache
        /\ now - message_cache[MsgIdOf(last'.msg)] > cache_ttl
        /\ ~HopLimitReached(last'.msg.hop_count))
       => ~(last'.forward = "False" /\ ~last'.routed)]_vars

\* the last step handled a DISCOVERY or DISCOVERY_RESPONSE datagram of
\* another node
LastIsDiscovery(type) ==
    /\ last.op = "handle_message"
    /\ last.msg.type = type
    /\ last.msg.node_id # NodeId

\* the peer table ps holds the sender of the last datagram with the name and
\* public key the datagram carries, the address it came from, and connected
SenderUpserted(ps) ==
    /\ GetPeer(ps, last.msg.node_id) # <<>>
    /\ \E p \in {GetPeer(ps, last.msg.node_id)[1]} :
          /\ p.name = last.msg.node_name
          /\ p.ip = IpOf[last.msg.node_id]
          /\ p.public_key = last.msg.public_key
          /\ p.connected

\* C32: handling a DISCOVERY datagram of another node puts the sender into
\* the peer table (name, sender address, public key, connected) and sends
\* exactly one datagram, a DISCOVERY_RESPONSE with the node's own identity to
\* the sender's address; handling a DISCOVERY_RESPONSE puts the sender into
\* the peer table and sends nothing.  The other peers stay as they are.
C32_DiscoveryHandshake ==
    [][/\ (LastIsDiscovery("DISCOVERY")' \/ LastIsDiscovery("DISCOVERY_RESPONSE")')
          => /\ SenderUpserted(peers)'
             /\ \A q \in PeerIds \ {last'.msg.node_id} : GetPeer(peers', q) = GetPeer(peers, q)
       /\ LastIsDiscovery("DISCOVERY")'
          => /\ Len(out') = 1
             /\ out'[1].to = IpOf[last'.msg.node_id]
             /\ out'[1].msg.type = "DISCOVERY_RESPONSE"
             /\ out'[1].msg.node_id = NodeId
             /\ out'[1].msg.node_name = NodeName
             /\ out'[1].msg.public_key = OwnPublicKey
       /\ LastIsDiscovery("DISCOVERY_RESPONSE")' => out' = <<>>]_vars

\* a peer that had timed out announced itself again and was answered, with
\* another peer in the table
C32_Witness ==
    /\ LastIsDiscovery("DISCOVERY")
    /\ Len(peers) = 2
    /\ \E i \in 1..2 : peers[i].id # last.msg.node_id /\ ~peers[i].connected
    /\ GetPeer(peers, last.msg.node_id)[1].last_seen > peer_timeout
    /\ Len(out) = 1
    /\ out[1].ok

\* C33: a DISCOVERY datagram of another node, received on the discovery
\* socket or on the message socket, is handed to the dispatch function: its
\* sender is in the peer table afterwards, as the datagram describes it.
C33_BothListenersDispatch ==
    [][(/\ last'.op \in {"discovery_listener", "handle_message"}
        /\ last'.msg.type = "DISCOVERY"
        /\ last'.msg.node_id # NodeId)
       => SenderUpserted(peers)']_vars

\* the place of a periodic task's datagram in one pass of the main loop
TaskRank(type) ==
    CASE type = "DISCOVERY" -> 1
      [] type = "PING" -> 2
      [] OTHER -> 3

\* the step was a pass in which the task stamped in field ran, and it had run
\* before (0 is what run_main_loop starts the stamps with)
FiredAgain(before, after) == after # before /\ before # 0

\* C34: with the clock in whole seconds and the main loop making a pass in
\* every second, two consecutive discovery broadcasts are 30 s apart, two
\* consecutive sweeps 10 s and two consecutive stats reports 60 s, each to
\* within 1 s; after a whole pass no task is overdue; a sweep pings every
\* known peer; the datagrams of one pass go out in the order discovery,
\* pings, stats; and after a pass, also one that an exception cut short, the
\* loop goes on.
C34_PeriodicTasks ==
    [][last'.op = "main_loop"
       => /\ FiredAgain(loop.last_discovery, loop'.last_discovery)
             => loop'.last_discovery - loop.last_discovery
                   \in (DISCOVERY_INTERVAL - 1)..(DISCOVERY_INTERVAL + 1)
          /\ FiredAgain(loop.last_health_check, loop'.last_health_check)
             => loop'.last_health_check - loop.last_health_check
                   \in (HEALTH_CHECK_INTERVAL - 1)..(HEALTH_CHECK_INTERVAL + 1)
          /\ FiredAgain(loop.last_stats_report, loop'.last_stats_report)
             => loop'.last_stats_report - loop.last_stats_report
                   \in (STATS_REPORT_INTERVAL - 1)..(STATS_REPORT_INTERVAL + 1)
          /\ last'.result = "None"
             => /\ now - loop'.last_discovery <= DISCOVERY_INTERVAL
                /\ now - loop'.last_health_check <= HEALTH_CHECK_INTERVAL
                /\ now - loop'.last_stats_report <= STATS_REPORT_INTERVAL
          /\ loop'.last_health_check # loop.last_health_check
             => \A i \in 1..Len(peers) :
                   \E j \in 1..Len(out') :
                       out'[j].msg.type = "PING" /\ out'[j].to = peers[i].ip
          /\ \A i, j \in 1..Len(out') :
                i < j => TaskRank(out'[i].msg.type) <= TaskRank(out'[j].msg.type)
          /\ loop'.running
          /\ threads'.main = "looping"]_vars

\* the second discovery broadcast of a node that was started with all three
\* tasks due, 31 s after the first, with a peer in the table
C34_Witness ==
    /\ last.op = "main_loop"
    /\ loop.start_time > STATS_REPORT_INTERVAL
    /\ loop.last_discovery = now
    /\ now - loop.start_time = DISCOVERY_INTERVAL + 1
    /\ loop.last_health_check > loop.start_time
    /\ peers # <<>>
    /\ Len(out) = 1
    /\ out[1].msg.type = "DISCOVERY"

\* the main loop of the running node has just made a whole pass
AfterPass == loop.running /\ last.op = "main_loop" /\ last.result = "None"

\* every peer still connected after a whole pass was heard of less than
\* deadline seconds ago
MarkedWithin(deadline) ==
    AfterPass => \A i \in 1..Len(peers) :
                    peers[i].connected => now - peers[i].last_seen < deadline

\* a peer's connected flag goes from false to true only in the handling of a
\* DISCOVERY or DISCOVERY_RESPONSE datagram of that peer
ReconnectedByAnnouncement ==
    \A p \in PeerIds :
        (/\ GetPeer(peers, p) # <<>>
         /\ ~GetPeer(peers, p)[1].connected
         /\ GetPeer(peers', p) # <<>>
         /\ GetPeer(peers', p)[1].connected)
        => /\ last'.op = "handle_message"
           /\ last'.msg.type \in {"DISCOVERY", "DISCOVERY_RESPONSE"}
           /\ last'.msg.node_id = p

\* C39 as stated: a peer of which nothing arrives any more is marked
\* connected = false by the sweep no later than 60 s plus one health-check
\* interval (10 s) after its last_seen, and its flag becomes true again only
\* through a DISCOVERY or DISCOVERY_RESPONSE of that peer.
C39_MarkedWithinInterval ==
    /\ [] MarkedWithin(peer_timeout + HEALTH_CHECK_INTERVAL)
    /\ [][ReconnectedByAnnouncement]_vars

\* C39 with the deadline the strict tests give: the peer is marked no later
\* than 60 s plus one health-check interval plus 1 s after its last_seen.
C39_MarkedWithinIntervalAndOne ==
    /\ [] MarkedWithin(peer_timeout + HEALTH_CHECK_INTERVAL + 1)
    /\ [][ReconnectedByAnnouncement]_vars

\* the sweep has just marked a peer heard of 71 s ago
C39_Witness ==
    /\ AfterPass
    /\ loop.last_health_check = now
    /\ \E i \in 1..Len(peers) :
          /\ ~peers[i].connected
          /\ now - peers[i].last_seen = peer_timeout + HEALTH_CHECK_INTERVAL + 1

\* the datagrams the nodes sent on the datagram that has just arrived
Answers == SubSeq(out', Len(out), Len(out'))

\* C35: a DISCOVERY_RESPONSE or PONG that arrives has no datagram sent, a
\* DISCOVERY that arrives has at most one DISCOVERY_RESPONSE sent by each node
\* it reaches and a PING at most one PONG, and whenever control datagrams are
\* in flight (after a broadcast, the sender's own copy included, or a PING)
\* a state with none in flight follows.
C35_ExchangesFinite ==
    /\ [][last'.op = "deliver"
          => /\ last'.msg.type \in {"DISCOVERY_RESPONSE", "PONG"} => Answers = <<>>
             /\ \A i \in 1..Len(Answers) :
                   /\ last'.msg.type \in {"DISCOVERY", "PING"}
                   /\ Answers[i].msg.type = IF last'.msg.type = "DISCOVERY"
                                            THEN "DISCOVERY_RESPONSE" ELSE "PONG"
                   /\ \A j \in 1..Len(Answers) :
                         Answers[i].msg.node_id = Answers[j].msg.node_id => i = j]_vars
    /\ (out # <<>>) ~> (out = <<>>)

\* node B has handled its own broadcast and the answer of every node to it,
\* its own included, and nothing is in flight any more
C35_Witness ==
    /\ out = <<>>
    /\ last.op = "deliver"
    /\ last.delivered
    /\ last.msg.type = "DISCOVERY_RESPONSE"
    /\ stats.messages_received = ExchangeSize
    /\ Len(peers) = Cardinality(PeerIds)

\* C36: when node A has sent x encrypted to node B and B handles the DATA
\* datagram, decryption raises nothing and the payload B obtains equals x,
\* with no session key on either side and with session keys established by
\* KEY_EXCHANGE datagrams on either or both sides.
C36_EndToEndDelivery ==
    last.op = "handle_data_message"
    => /\ last.result = "None"
       /\ last.msg.value = sealed[1].plaintext

\* C37: when a DATA message that this node sent with send_message comes back
\* to it from a neighbour, the node sends no datagram: no further copy of it.
C37_NoForwardOfOwnMessage ==
    (/\ last.op = "handle_message"
     /\ last.msg.type = "DATA"
     /\ last.msg.source = NodeId)
    => out = <<>>

\* the message sent directly at time 0 has come back at once (nothing flooded,
\* so nothing in the cache) and forward_message was called for it
C37_Witness ==
    /\ last.op = "handle_message"
    /\ last.msg.type = "DATA"
    /\ last.msg.source = NodeId
    /\ last.msg.destination # NodeId
    /\ last.forward # "None"
    /\ now = 0
    /\ stats.messages_sent = 1
    /\ message_cache = EmptyDict
    /\ out = <<>>
====
